---- MODULE Spec2Model ----
(***************************************************************************)
(* A model of the build coordinator of remake (src/remake.cpp): the status *)
(* engine, the rule resolver, the dependency store and the scheduler / IPC *)
(* server.  Targets are strings; maps (status, dependencies, job_targets,  *)
(* job_pids, the file system) are functions whose DOMAIN is the set of     *)
(* keys present; the client list is a sequence whose head is the front.    *)
(***************************************************************************)
EXTENDS Integers, Sequences, FiniteSets, TLC

(***************************************************************************)
(* Bounds of the model.                                                    *)
(***************************************************************************)
\* Largest number of children whose exit is collected by one waitpid loop.
MaxReap == 2

\* Number of successive invocations of remake in the same directory.
MaxRuns == 2

\* Number of requests per invocation that name a job that is not live.
MaxStray == 1

\* time(NULL) at the start of the first invocation; the files that exist
\* before it have the modification times 1 and 2.
StartTime == 3

(***************************************************************************)
(* Strings.  std::set<std::string> and std::map iterate in lexicographic   *)
(* byte order; Chars lists the characters of the model in ASCII order.     *)
(***************************************************************************)
Chars == "%.Rabcdefghijklmnopqrstuvwxyz"

CharAt(s, i) == SubSeq(s, i, i)

CharRank(c) == CHOOSE i \in 1..Len(Chars) : CharAt(Chars, i) = c

RECURSIVE StrLessFrom(_, _, _)
StrLessFrom(s, t, i) ==
  IF i > Len(t) THEN FALSE
  ELSE IF i > Len(s) THEN TRUE
  ELSE IF CharAt(s, i) = CharAt(t, i) THEN StrLessFrom(s, t, i + 1)
  ELSE CharRank(CharAt(s, i)) < CharRank(CharAt(t, i))

\* operator< of std::string.
StrLess(s, t) == StrLessFrom(s, t, 1)

MinStr(S) == CHOOSE x \in S : \A y \in S \ {x} : StrLess(x, y)

\* The elements of a string_set in iteration order.
RECURSIVE SetToSeq(_)
SetToSeq(S) ==
  IF S = {} THEN <<>>
  ELSE LET m == MinStr(S) IN <<m>> \o SetToSeq(S \ {m})

SeqToSet(q) == {q[i] : i \in 1..Len(q)}

\* Restriction of a map to a set of keys, and removal of one key.
Restrict(f, K) == [k \in (DOMAIN f) \cap K |-> f[k]]

Erase(f, k) == [x \in (DOMAIN f) \ {k} |-> f[x]]

(***************************************************************************)
(* Rules (rule_t).  The local variable assignments of a rule (vars) only   *)
(* change the text of the script and are left out.                         *)
(***************************************************************************)
Rule(t, d, sc) == [targets |-> t, deps |-> d, script |-> sc]

\* rule_t(): the empty rule.
EmptyRule == Rule(<<>>, <<>>, "")

\* A null rule_t pointer (client_t::delayed).
NoRule == [targets |-> <<>>, deps |-> <<>>, script |-> "", null |-> TRUE]

\* std::string::find('%'): the 0-based position of the first '%', or -1.
FindPercent(str) ==
  IF \E i \in 1..Len(str) : CharAt(str, i) = "%"
  THEN (CHOOSE i \in 1..Len(str) :
          /\ CharAt(str, i) = "%"
          /\ \A j \in 1..(i - 1) : CharAt(str, j) # "%") - 1
  ELSE -1

\* One element of substitute_pattern.
SubstituteOne(pat, str) ==
  LET pos == FindPercent(str) IN
  IF pos = -1 THEN str
  ELSE SubSeq(str, 1, pos) \o pat \o SubSeq(str, pos + 2, Len(str))

substitute_pattern(pat, src) == [i \in 1..Len(src) |-> SubstituteOne(pat, src[i])]

\* Whether the pattern j matches target: the two compare() of
\* find_generic_rule, pos being the position of '%' in j.
PatternMatches(j, target, pos) ==
  LET len == Len(j)
      tlen == Len(target)
      len2 == len - (pos + 1)
  IN /\ SubSeq(j, 1, pos) = SubSeq(target, 1, pos)
     /\ SubSeq(j, pos + 2, len) = SubSeq(target, tlen - len2 + 1, tlen)

\* The inner loop of find_generic_rule over the targets of one generic rule,
\* from its j-th target on: the new (plen, rule) pair.
RECURSIVE GenericInner(_, _, _, _, _)
GenericInner(target, g, j, plen, rule) ==
  IF j > Len(g.targets) THEN [plen |-> plen, rule |-> rule]
  ELSE LET pt == g.targets[j]
           len == Len(pt)
           tlen == Len(target)
           pos == FindPercent(pt)
       IN IF \/ tlen < len
             \/ plen <= tlen - (len - 1)
             \/ pos = -1
             \/ ~PatternMatches(pt, target, pos)
          THEN GenericInner(target, g, j + 1, plen, rule)
          ELSE LET plen2 == tlen - (len - 1)
                   pat == SubSeq(target, pos + 1, pos + plen2)
               IN [plen |-> plen2,
                   rule |-> Rule(substitute_pattern(pat, g.targets),
                                 substitute_pattern(pat, g.deps), g.script)]

RECURSIVE GenericOuter(_, _, _, _, _)
GenericOuter(rules, target, i, plen, rule) ==
  IF i > Len(rules) THEN rule
  ELSE LET r == GenericInner(target, rules[i], 1, plen, rule)
       IN GenericOuter(rules, target, i + 1, r.plen, r.rule)

find_generic_rule(grules, target) ==
  GenericOuter(grules, target, 1, Len(target) + 1, EmptyRule)

\* The last loop of find_rule: the prerequisites of the specific rules of
\* every target of the generic rule are appended.
RECURSIVE MergeSpecific(_, _, _)
MergeSpecific(srules, grule, j) ==
  IF j > Len(grule.targets) THEN grule
  ELSE LET t == grule.targets[j] IN
       IF t \notin DOMAIN srules THEN MergeSpecific(srules, grule, j + 1)
       ELSE IF srules[t].script # "" THEN EmptyRule
       ELSE MergeSpecific(srules,
              [grule EXCEPT !.deps = @ \o srules[t].deps], j + 1)

find_rule(srules, grules, target) ==
  IF target \in DOMAIN srules /\ srules[target].script # ""
  THEN srules[target]
  ELSE LET grule == find_generic_rule(grules, target) IN
       IF grule.targets = <<>>
       THEN (IF target \in DOMAIN srules THEN srules[target] ELSE grule)
       ELSE IF Len(grule.targets) = 1
       THEN (IF target \notin DOMAIN srules THEN grule
             ELSE [grule EXCEPT !.deps = @ \o srules[target].deps])
       ELSE MergeSpecific(srules, grule, 1)

(***************************************************************************)
(* The dependency store.  dependencies maps a target to the handle of its  *)
(* dependency_t (a ref_ptr); dep_heap maps the handles in use to their     *)
(* content, so that the targets bound to one handle share one record.      *)
(***************************************************************************)
Dep(t, d) == [targets |-> t, deps |-> d]

Range(f) == {f[k] : k \in DOMAIN f}

\* dependencies[t] = dep for every t of targets, dep being a new record;
\* records that no target is bound to any more are freed (ref_ptr).
Bind(store, targets, rec) ==
  LET h == CHOOSE x \in 1..(Cardinality(DOMAIN store.dependencies) + Len(targets) + 1) :
             x \notin Range(store.dependencies)
      d2 == [t \in (DOMAIN store.dependencies) \cup SeqToSet(targets) |->
               IF t \in SeqToSet(targets) THEN h ELSE store.dependencies[t]]
      h2 == [x \in Range(d2) |-> IF x = h THEN rec ELSE store.dep_heap[x]]
  IN [dependencies |-> d2, dep_heap |-> h2]

\* *dependencies[t]: the record of t.
DepOf(s, t) == s.dep_heap[s.dependencies[t]]

\* The prerequisites already recorded for t (d->deps of a possibly null d).
OldDeps(store, t) ==
  IF t \in DOMAIN store.dependencies
  THEN store.dep_heap[store.dependencies[t]].deps ELSE {}

\* load_dependencies: each line <<targets, deps>> binds its targets to one
\* new record.
RECURSIVE load_dependencies(_, _)
load_dependencies(store, lines) ==
  IF lines = <<>> THEN store
  ELSE load_dependencies(
         Bind(store, lines[1][1], Dep(lines[1][1], SeqToSet(lines[1][2]))),
         Tail(lines))

EmptyStore == [dependencies |-> <<>>, dep_heap |-> <<>>]

\* The second half of register_scripted_rule.
register_scripted_deps(store, rule) ==
  Bind(store, rule.targets,
       Dep(rule.targets,
           SeqToSet(rule.deps) \cup
           UNION {OldDeps(store, rule.targets[i]) : i \in 1..Len(rule.targets)}))

\* The second loop of register_transparent_rule, from the i-th target on.
RECURSIVE register_transparent_deps(_, _, _)
register_transparent_deps(store, rule, i) ==
  IF i > Len(rule.targets) THEN store
  ELSE LET t == rule.targets[i] IN
       register_transparent_deps(
         IF t \in DOMAIN store.dependencies
         THEN [store EXCEPT !.dep_heap[store.dependencies[t]].deps =
                              @ \cup SeqToSet(rule.deps)]
         ELSE Bind(store, <<t>>, Dep(<<t>>, SeqToSet(rule.deps))),
         rule, i + 1)

\* register_scripted_rule and register_transparent_rule on specific_rules.
\* (A second rule for a target of a scripted rule ends the process in
\* load_rule; the rule files of the model have none.)
RECURSIVE register_transparent_rules(_, _, _)
register_transparent_rules(srules, rule, i) ==
  IF i > Len(rule.targets) THEN srules
  ELSE LET t == rule.targets[i] IN
       register_transparent_rules(
         IF t \in DOMAIN srules
         THEN [srules EXCEPT ![t].deps = @ \o rule.deps]
         ELSE srules @@ (t :> Rule(<<t>>, rule.deps, "")),
         rule, i + 1)

register_scripted_rules(srules, rule) ==
  [t \in SeqToSet(rule.targets) |-> rule] @@ srules

IsGeneric(rule) == FindPercent(rule.targets[1]) # -1

\* The message of the error that load_rule finds in rule r, "" when it
\* finds none: no target, a target pattern among plain targets (or the
\* reverse), a target that has a rule already when r has a script, or a
\* target that has a scripted rule already when r has none.  Each of them
\* ends the process with exit(EXIT_FAILURE).
RuleError(ld, r) ==
  IF r.targets = <<>> THEN "syntax error"
  ELSE IF \E i \in 1..Len(r.targets) :
            \/ r.targets[i] = ""
            \/ (FindPercent(r.targets[i]) # -1) # (FindPercent(r.targets[1]) # -1)
  THEN "syntax error"
  ELSE IF IsGeneric(r) THEN ""
  ELSE IF r.script # ""
  THEN IF \/ \E i \in 1..Len(r.targets) : r.targets[i] \in DOMAIN ld.specific_rules
          \/ \E i, j \in 1..Len(r.targets) : i # j /\ r.targets[i] = r.targets[j]
       THEN "cannot be the target of several rules" ELSE ""
  ELSE IF \E i \in 1..Len(r.targets) :
            /\ r.targets[i] \in DOMAIN ld.specific_rules
            /\ ld.specific_rules[r.targets[i]].script # ""
  THEN "cannot be the target of several rules" ELSE ""

\* The end of load_rule: the first target of the first specific rule is
\* the default target.
SetFirstTarget(ld, r) ==
  IF ld.first_target = "" THEN [ld EXCEPT !.first_target = r.targets[1]] ELSE ld

\* load_rules / load_rule after parsing: rules is the list of parsed rules.
\* The result holds specific_rules, generic_rules, the dependency store,
\* first_target and, in error, the message of the error that has ended the
\* process ("" when the rules are loaded).
RECURSIVE load_rules(_, _)
load_rules(ld, rules) ==
  IF rules = <<>> \/ ld.error # "" THEN ld
  ELSE LET r == rules[1] IN
       IF RuleError(ld, r) # "" THEN [ld EXCEPT !.error = RuleError(ld, r)]
       ELSE load_rules(
         IF IsGeneric(r)
         THEN [ld EXCEPT !.generic_rules = Append(@, r)]
         ELSE IF r.script # ""
         THEN SetFirstTarget(
                [ld EXCEPT !.specific_rules = register_scripted_rules(@, r),
                           !.store = register_scripted_deps(@, r)], r)
         ELSE SetFirstTarget(
                [ld EXCEPT !.specific_rules = register_transparent_rules(@, r, 1),
                           !.store = register_transparent_deps(@, r, 1)], r),
         Tail(rules))

(***************************************************************************)
(* The state of the coordinator and of its environment.                    *)
(***************************************************************************)
VARIABLES
  specific_rules,   \* rule_map: target -> rule
  generic_rules,    \* rule_list
  dependencies,     \* dependency_map: target -> handle of its record
  dep_heap,         \* handle -> dependency_t
  status,           \* status_map: target -> [status, last]
  job_targets,      \* job id -> targets of the job
  job_pids,         \* pid -> job id
  clients,          \* client_list, front first
  max_active_jobs,  \* option -j
  keep_going,       \* option -k
  running_jobs,
  waiting_jobs,
  job_counter,
  build_failure,
  now,              \* time(NULL) at startup
  pc,               \* where server_mode is
  files,            \* the file system: existing file -> st_mtime
  children,         \* the live shell children: pid -> what the shell is doing
  replies,          \* socket -> the byte sent on it by complete_request
  accepted,         \* socket -> the request accepted on it
  remake_db,        \* the content of .remake: a list of <<targets, deps>>
  scenario,         \* the rule file, command line and options of the run
  run,              \* number of the current invocation of remake
  exit_status,      \* the exit status of the last invocation that has ended
  bootstrap,        \* server_mode is in the server_loop of the rule file
  first_target,     \* the default target
  interrupted,      \* sigint_handler has run in this invocation
  rejected,         \* socket -> the request that accept_client has refused on it
  spawned,          \* number of shells forked by this invocation so far
  trace             \* what the last step of the coordinator did

vars == <<specific_rules, generic_rules, dependencies, dep_heap, status,
          job_targets, job_pids, clients, max_active_jobs, keep_going,
          running_jobs, waiting_jobs, job_counter, build_failure, now, pc,
          files, children, replies, accepted, remake_db, scenario, run,
          exit_status, bootstrap, first_target, interrupted, rejected, spawned,
          trace>>

\* The part of the state that the handlers of the coordinator work on.
Machine ==
  [status |-> status, dependencies |-> dependencies, dep_heap |-> dep_heap,
   job_targets |-> job_targets, job_pids |-> job_pids, clients |-> clients,
   running_jobs |-> running_jobs, waiting_jobs |-> waiting_jobs,
   job_counter |-> job_counter, build_failure |-> build_failure,
   files |-> files, children |-> children, replies |-> replies,
   spawns |-> <<>>, completed |-> <<>>, circular |-> 0, started |-> <<>>,
   requests |-> <<>>, closed |-> <<>>, stuck |-> <<>>, reset |-> {}, cause |-> "",
   observed |-> <<>>,
   asserts |-> TRUE, ret |-> "none",
   at |-> "loop", i |-> 1, target |-> "", success |-> TRUE]

(***************************************************************************)
(* The status engine.                                                      *)
(***************************************************************************)
\* status_t(): a value-initialized entry, as std::map::operator[] makes it.
DefaultStatus == [status |-> "Uptodate", last |-> 0]

\* status[t]: the entry of t, inserted if there is none.
Touch(st, t) == IF t \in DOMAIN st THEN st ELSE st @@ (t :> DefaultStatus)

SetStatus(st, t, v) == [Touch(st, t) EXCEPT ![t].status = v]

SetLast(st, t, v) == [Touch(st, t) EXCEPT ![t].last = v]

\* stat(): st_mtime of an existing file; the callers set 0 when it fails.
Exists(s, t) == t \in DOMAIN s.files

Mtime(s, t) == IF Exists(s, t) THEN s.files[t] ELSE 0

Max(a, b) == IF a > b THEN a ELSE b

\* The first loop of get_status: the mtime of each sibling is recorded.
RECURSIVE StatSiblings(_, _, _)
StatSiblings(s, targets, k) ==
  IF k > Len(targets) THEN s
  ELSE StatSiblings([s EXCEPT !.status = SetLast(@, targets[k], Mtime(s, targets[k]))],
                    targets, k + 1)

RECURSIVE Latest(_, _, _)
Latest(s, targets, k) ==
  IF k > Len(targets) THEN 0
  ELSE Max(Mtime(s, targets[k]), Latest(s, targets, k + 1))

\* The label "update" of get_status.
RECURSIVE AssignSiblings(_, _, _, _)
AssignSiblings(st, targets, k, v) ==
  IF k > Len(targets) THEN st
  ELSE AssignSiblings(SetStatus(st, targets[k], v), targets, k + 1, v)

RECURSIVE get_status(_, _)
RECURSIVE CheckDeps(_, _, _, _, _)

\* The loop of CheckDeps with <= in the place of <: a prerequisite as old
\* as the target makes it obsolete.
RECURSIVE CheckDeps_not_younger(_, _, _, _, _)
CheckDeps_not_younger(s, target, deps, latest, st) ==
  IF deps = <<>> THEN [s |-> s, st |-> st]
  ELSE LET Checked(s1, ts) ==
             IF latest <= ts.last THEN [s |-> s1, st |-> "Todo"]
             ELSE CheckDeps_not_younger(s1, target, Tail(deps), latest,
                                        IF ts.status = "Uptodate" THEN st ELSE "Recheck")
           Read(s1) ==
             Checked([s1 EXCEPT !.observed =
                        Append(@, [of |-> target, dep |-> deps[1],
                                   last |-> s1.status[deps[1]].last,
                                   status |-> s1.status[deps[1]].status])],
                     s1.status[deps[1]])
       IN Read(get_status(s, deps[1]))

\* The second loop of get_status(target) over the prerequisites deps (in
\* the order of the set), st being the status concluded so far: the state
\* and the status concluded.  The field observed of the state is not in the
\* program: it lists the values ts_ that the loop has read.
CheckDeps(s, target, deps, latest, st) ==
  IF deps = <<>> THEN [s |-> s, st |-> st]
  ELSE LET Checked(s1, ts) ==
             IF latest < ts.last THEN [s |-> s1, st |-> "Todo"]
             ELSE CheckDeps(s1, target, Tail(deps), latest,
                            IF ts.status = "Uptodate" THEN st ELSE "Recheck")
           Read(s1) ==
             Checked([s1 EXCEPT !.observed =
                        Append(@, [of |-> target, dep |-> deps[1],
                                   last |-> s1.status[deps[1]].last,
                                   status |-> s1.status[deps[1]].status])],
                     s1.status[deps[1]])
       IN Read(get_status(s, deps[1]))

\* get_status(target): the state after the call; the status returned is
\* the entry of target in it.
get_status(s, target) ==
  IF target \in DOMAIN s.status THEN s
  ELSE LET s1 == [s EXCEPT !.status = @ @@ (target :> DefaultStatus)] IN
       IF target \notin DOMAIN s1.dependencies
       THEN IF ~Exists(s1, target)
            THEN [s1 EXCEPT !.status[target] = [status |-> "Todo", last |-> 0]]
            ELSE [s1 EXCEPT !.status[target] =
                              [status |-> "Uptodate", last |-> Mtime(s1, target)]]
       ELSE LET dep == DepOf(s1, target)
                Update(r) ==
                  [r.s EXCEPT !.status = AssignSiblings(@, dep.targets, 1, r.st)]
                Stat(s2) ==
                  IF \E k \in 1..Len(dep.targets) : ~Exists(s1, dep.targets[k])
                  THEN [s |-> s2, st |-> "Todo"]
                  ELSE CheckDeps(s2, target, SetToSeq(dep.deps),
                                 Latest(s1, dep.targets, 1), "Uptodate")
            IN Update(Stat(StatSiblings(s1, dep.targets, 1)))

\* update_status without the test of ts.last against now: the file is
\* always looked at.
update_status_always_stat(s, target) ==
  IF target \notin DOMAIN s.status THEN [s EXCEPT !.asserts = FALSE]
  ELSE LET ts == s.status[target] IN
       IF ~Exists(s, target)
       THEN [s EXCEPT !.status[target] = [status |-> "Remade", last |-> 0]]
       ELSE IF Mtime(s, target) # ts.last
       THEN [s EXCEPT !.status[target] =
                        [status |-> "Remade", last |-> Mtime(s, target)]]
       ELSE [s EXCEPT !.status[target].status = "Uptodate"]

\* update_status(target).
update_status(s, target) ==
  IF target \notin DOMAIN s.status THEN [s EXCEPT !.asserts = FALSE]
  ELSE LET ts == s.status[target] IN
       IF ts.last >= now
       THEN [s EXCEPT !.status[target].status = "Remade"]
       ELSE IF ~Exists(s, target)
       THEN [s EXCEPT !.status[target] = [status |-> "Remade", last |-> 0]]
       ELSE IF Mtime(s, target) # ts.last
       THEN [s EXCEPT !.status[target] =
                        [status |-> "Remade", last |-> Mtime(s, target)]]
       ELSE [s EXCEPT !.status[target].status = "Uptodate"]

\* The first loop of still_need_rebuild: whether some prerequisite is not
\* Uptodate, and the status map with the entries that status[*k] inserted.
RECURSIVE RecheckDeps(_, _)
RecheckDeps(st, deps) ==
  IF deps = <<>> THEN [status |-> st, need |-> FALSE]
  ELSE LET st1 == Touch(st, deps[1]) IN
       IF st1[deps[1]].status # "Uptodate" THEN [status |-> st1, need |-> TRUE]
       ELSE RecheckDeps(st1, Tail(deps))

\* still_need_rebuild(target): the state after the call and the result.
still_need_rebuild(s, target) ==
  IF target \notin DOMAIN s.status THEN [s |-> [s EXCEPT !.asserts = FALSE], need |-> TRUE]
  ELSE IF s.status[target].status # "Recheck" THEN [s |-> s, need |-> TRUE]
  ELSE IF target \notin DOMAIN s.dependencies
  THEN [s |-> [s EXCEPT !.asserts = FALSE], need |-> TRUE]
  ELSE LET dep == DepOf(s, target)
           r == RecheckDeps(s.status, SetToSeq(dep.deps))
       IN IF r.need THEN [s |-> [s EXCEPT !.status = r.status], need |-> TRUE]
          ELSE [s |-> [s EXCEPT !.status =
                                 AssignSiblings(r.status, dep.targets, 1, "Uptodate")],
                need |-> FALSE]

RECURSIVE UpdateAll(_, _, _)
UpdateAll(s, targets, j) ==
  IF j > Len(targets) THEN s
  ELSE UpdateAll(update_status(s, targets[j]), targets, j + 1)

\* The failure branch of complete_job without remove(): the files stay.
RECURSIVE FailAll_keep_files(_, _, _)
FailAll_keep_files(s, targets, j) ==
  IF j > Len(targets) THEN s
  ELSE FailAll_keep_files([s EXCEPT !.status = SetStatus(@, targets[j], "Failed")],
                          targets, j + 1)

\* The failure branch of complete_job: status Failed, and remove().
RECURSIVE FailAll(_, _, _)
FailAll(s, targets, j) ==
  IF j > Len(targets) THEN s
  ELSE FailAll([s EXCEPT !.status = SetStatus(@, targets[j], "Failed"),
                         !.files = Erase(@, targets[j])],
               targets, j + 1)

\* complete_job without job_targets.erase(i).
complete_job_keep_job(s, job_id, success) ==
  IF job_id \notin DOMAIN s.job_targets THEN [s EXCEPT !.asserts = FALSE]
  ELSE LET targets == s.job_targets[job_id]
           s1 == IF success THEN UpdateAll(s, targets, 1) ELSE FailAll(s, targets, 1)
       IN [s1 EXCEPT !.completed = Append(@, [job |-> job_id, success |-> success,
                                              targets |-> targets])]

\* complete_job(job_id, success).
complete_job(s, job_id, success) ==
  IF job_id \notin DOMAIN s.job_targets THEN [s EXCEPT !.asserts = FALSE]
  ELSE LET targets == s.job_targets[job_id]
           s1 == IF success THEN UpdateAll(s, targets, 1) ELSE FailAll(s, targets, 1)
       IN [s1 EXCEPT !.job_targets = Erase(@, job_id),
                     !.completed = Append(@, [job |-> job_id, success |-> success,
                                              targets |-> targets])]

(***************************************************************************)
(* The scheduler.                                                          *)
(***************************************************************************)
InvalidSocket == -1

\* client_t().  The fields seen and was are not in client_t: seen collects
\* the targets that the client found Uptodate or Remade, and was is the
\* status that the first target of the delayed rule had when start was
\* called, for the properties below.
NewClient ==
  [socket |-> InvalidSocket, job_id |-> -1, failed |-> FALSE, pending |-> <<>>,
   running |-> {}, delayed |-> NoRule, seen |-> {}, was |-> "None",
   creator |-> <<>>]

IsNull(rule) == "null" \in DOMAIN rule

EraseAt(q, i) == SubSeq(q, 1, i - 1) \o SubSeq(q, i + 1, Len(q))

\* clients.insert with the new element put behind the i-th one.
InsertAt_behind(q, i, x) == SubSeq(q, 1, i) \o <<x>> \o SubSeq(q, i + 1, Len(q))

InsertAt(q, i, x) == SubSeq(q, 1, i - 1) \o <<x>> \o SubSeq(q, i, Len(q))

\* has_free_slots() with <= in the place of <: one job too many.
has_free_slots_inclusive(s) ==
  IF max_active_jobs <= 0 THEN TRUE
  ELSE s.running_jobs - s.waiting_jobs <= max_active_jobs

\* has_free_slots().
has_free_slots(s) ==
  IF max_active_jobs <= 0 THEN TRUE
  ELSE s.running_jobs - s.waiting_jobs < max_active_jobs

\* The status of a target as a string, "None" when it has no entry.
StatusOf(st, t) == IF t \in DOMAIN st THEN st[t].status ELSE "None"

\* run_script with the prerequisites already recorded for the targets kept
\* in the new record, as register_scripted_rule does.
run_script_merging(s, job_id, rule, via) ==
  LET b == Bind([dependencies |-> s.dependencies, dep_heap |-> s.dep_heap],
                rule.targets,
                Dep(rule.targets,
                    SeqToSet(rule.deps) \cup
                    UNION {OldDeps(s, rule.targets[k]) : k \in 1..Len(rule.targets)}))
  IN [s EXCEPT
        !.dependencies = b.dependencies,
        !.dep_heap = b.dep_heap,
        !.running_jobs = @ + 1,
        !.job_pids = @ @@ (job_id :> job_id),
        !.children = @ @@ (job_id :> [script |-> rule.script, blocked |-> InvalidSocket,
                                      sent |-> 0, ignore |-> FALSE, doomed |-> FALSE]),
        !.spawns = Append(@, [job |-> job_id, rule |-> rule, via |-> via,
                              free |-> has_free_slots(s),
                              active |-> s.running_jobs - s.waiting_jobs,
                              deps |-> [d \in SeqToSet(rule.deps) |->
                                          StatusOf(s.status, d)],
                              recorded |-> [d \in OldDeps(s, rule.targets[1]) |->
                                              StatusOf(s.status, d)],
                              old |-> UNION {OldDeps(s, rule.targets[k]) :
                                               k \in 1..Len(rule.targets)},
                              inuse |-> Range(s.dependencies),
                              bound |-> [u \in SeqToSet(rule.targets) |->
                                           b.dependencies[u]],
                              record |-> b.dep_heap[b.dependencies[rule.targets[1]]]])]

\* run_script(job_id, rule), via being the dependency client that is being
\* completed (NewClient when the script is started by start).  fork() and
\* pipe() are taken to succeed.  The pid of the child is the job id.  The
\* fields old, inuse, bound and record of the entry of spawns are for the
\* properties: the prerequisites recorded for the targets before the call,
\* the records in use before the call, and what the targets are bound to
\* after it.
run_script(s, job_id, rule, via) ==
  LET b == Bind([dependencies |-> s.dependencies, dep_heap |-> s.dep_heap],
                rule.targets, Dep(rule.targets, SeqToSet(rule.deps)))
  IN [s EXCEPT
        !.dependencies = b.dependencies,
        !.dep_heap = b.dep_heap,
        !.running_jobs = @ + 1,
        !.job_pids = @ @@ (job_id :> job_id),
        !.children = @ @@ (job_id :> [script |-> rule.script, blocked |-> InvalidSocket,
                                      sent |-> 0, ignore |-> FALSE, doomed |-> FALSE]),
        !.spawns = Append(@, [job |-> job_id, rule |-> rule, via |-> via,
                              free |-> has_free_slots(s),
                              active |-> s.running_jobs - s.waiting_jobs,
                              deps |-> [d \in SeqToSet(rule.deps) |->
                                          StatusOf(s.status, d)],
                              recorded |-> [d \in OldDeps(s, rule.targets[1]) |->
                                              StatusOf(s.status, d)],
                              old |-> UNION {OldDeps(s, rule.targets[k]) :
                                               k \in 1..Len(rule.targets)},
                              inuse |-> Range(s.dependencies),
                              bound |-> [u \in SeqToSet(rule.targets) |->
                                           b.dependencies[u]],
                              record |-> b.dep_heap[b.dependencies[rule.targets[1]]]])]

\* current->pending = rule.deps, with the prerequisites recorded for the
\* first target of the rule put behind the static ones.
pending_with_recorded(s, rule) ==
  rule.deps \o SetToSeq(OldDeps(s, rule.targets[1]) \ SeqToSet(rule.deps))

\* The pending list of the dependency client of a rule: current->pending =
\* rule.deps.
pending_of(s, rule) == rule.deps

\* The branch of start for a target without rule, with the job id taken
\* before the rule is looked at.
no_rule_counted(s, target) ==
  [s EXCEPT !.status = SetStatus(@, target, "Failed"), !.job_counter = @ + 1]

\* The branch of start for a target without rule: status[target].status =
\* Failed.
no_rule(s, target) == [s EXCEPT !.status = SetStatus(@, target, "Failed")]

\* What the properties look at around a call of start.
Summary(s) ==
  [job_counter |-> s.job_counter, jobs |-> DOMAIN s.job_targets,
   clients |-> Len(s.clients), spawns |-> Len(s.spawns), status |-> s.status,
   queue |-> s.clients]

RECURSIVE MarkRunning(_, _, _)
MarkRunning(st, targets, i) ==
  IF i > Len(targets) THEN st
  ELSE MarkRunning(SetStatus(st, targets[i], "Running"), targets, i + 1)

\* start with int job_id = job_counter in the place of job_counter++.
start_same_id(s, target, i) ==
  LET Log(r) ==
        [r EXCEPT !.s.started =
           Append(@, [target |-> target, by |-> s.clients[i], ok |-> r.ok,
                      before |-> Summary(s), after |-> Summary(r.s)])]
      Found(rule) ==
        IF rule.targets = <<>>
        THEN [s |-> no_rule(s, target), ok |-> FALSE, inserted |-> FALSE]
        ELSE LET job_id == s.job_counter
                 s1 == [s EXCEPT !.status = MarkRunning(@, rule.targets, 1),
                                 !.job_targets = (job_id :> rule.targets) @@ @]
             IN IF rule.deps # <<>>
                THEN [s |-> [s1 EXCEPT !.clients =
                                InsertAt(@, i, [NewClient EXCEPT
                                                  !.job_id = job_id,
                                                  !.pending = pending_of(s, rule),
                                                  !.delayed = rule,
                                                  !.was = StatusOf(s.status,
                                                                   rule.targets[1]),
                                                  !.creator = <<s.clients[i].job_id,
                                                                 s.clients[i].socket>>])],
                      ok |-> TRUE, inserted |-> TRUE]
                ELSE [s |-> run_script(s1, job_id, rule, NewClient),
                      ok |-> TRUE, inserted |-> FALSE]
  IN Log(Found(find_rule(specific_rules, generic_rules, target)))

\* start(target, current): current is the index i of the current client.
\* The result has the state, the value returned and whether a dependency
\* client was inserted at index i (current then points to it).  The field
\* started of the state is not in the program: it lists the calls of start,
\* with the client that asked for the target.
start(s, target, i) ==
  LET Log(r) ==
        [r EXCEPT !.s.started =
           Append(@, [target |-> target, by |-> s.clients[i], ok |-> r.ok,
                      before |-> Summary(s), after |-> Summary(r.s)])]
      Found(rule) ==
        IF rule.targets = <<>>
        THEN [s |-> no_rule(s, target), ok |-> FALSE, inserted |-> FALSE]
        ELSE LET job_id == s.job_counter
                 s1 == [s EXCEPT !.status = MarkRunning(@, rule.targets, 1),
                                 !.job_counter = @ + 1,
                                 !.job_targets = (job_id :> rule.targets) @@ @]
             IN IF rule.deps # <<>>
                THEN [s |-> [s1 EXCEPT !.clients =
                                InsertAt(@, i, [NewClient EXCEPT
                                                  !.job_id = job_id,
                                                  !.pending = pending_of(s, rule),
                                                  !.delayed = rule,
                                                  !.was = StatusOf(s.status,
                                                                   rule.targets[1]),
                                                  !.creator = <<s.clients[i].job_id,
                                                                 s.clients[i].socket>>])],
                      ok |-> TRUE, inserted |-> TRUE]
                ELSE [s |-> run_script(s1, job_id, rule, NewClient),
                      ok |-> TRUE, inserted |-> FALSE]
  IN Log(Found(find_rule(specific_rules, generic_rules, target)))

\* send() of the reply on the socket of a client: the byte is recorded and
\* the shell that was blocked on this request goes on.
Reply(s, socket, res) ==
  [s EXCEPT
     !.replies = IF socket \in DOMAIN @
                 THEN [@ EXCEPT ![socket] = Append(@, res)]
                 ELSE @ @@ (socket :> <<res>>),
     !.children = [p \in DOMAIN s.children |->
                     LET c == s.children[p] IN
                     IF c.blocked = socket
                     THEN [c EXCEPT !.blocked = InvalidSocket,
                                    !.doomed = (res = 0 /\ ~c.ignore)]
                     ELSE c]]

\* complete_request(client, success), client being the i-th of the list.
complete_request(s, i, success) ==
  LET client == s.clients[i]
      Delayed(r) ==
        IF client.socket # InvalidSocket THEN [s EXCEPT !.asserts = FALSE]
        ELSE IF success /\ r.need
        THEN run_script(r.s, client.job_id, client.delayed, client)
        ELSE complete_job(r.s, client.job_id, success)
      Failure(s1) ==
        IF client.job_id < 0 /\ ~success
        THEN [s1 EXCEPT !.build_failure = TRUE] ELSE s1
  IN Failure(IF ~IsNull(client.delayed)
             THEN Delayed(IF success
                          THEN still_need_rebuild(s, client.delayed.targets[1])
                          ELSE [s |-> s, need |-> FALSE])
             ELSE IF client.socket # InvalidSocket
             THEN [Reply(s, client.socket, IF success THEN 1 ELSE 0)
                     EXCEPT !.waiting_jobs = @ - 1]
             ELSE s)

\* The loop "Remove running targets that have finished" over the targets
\* js of the running set of client c (in the order of the set).
RECURSIVE ScanRunning(_, _, _)
ScanRunning(st, c, js) ==
  IF js = <<>> THEN [c |-> c, out |-> "ok"]
  ELSE LET j == js[1] IN
       IF j \notin DOMAIN st THEN [c |-> c, out |-> "assert"]
       ELSE CASE st[j].status = "Running" -> ScanRunning(st, c, Tail(js))
              [] st[j].status = "Failed" ->
                   IF ~keep_going THEN [c |-> c, out |-> "failed"]
                   ELSE ScanRunning(st, [c EXCEPT !.failed = TRUE,
                                                  !.running = @ \ {j}], Tail(js))
              [] st[j].status \in {"Uptodate", "Remade"} ->
                   ScanRunning(st, [c EXCEPT !.running = @ \ {j},
                                             !.seen = @ \cup {j}], Tail(js))
              [] OTHER -> [c |-> c, out |-> "assert"]

\* abort() after a failed assertion.
Abort(s) == [s EXCEPT !.asserts = FALSE, !.ret = "abort"]

(***************************************************************************)
(* handle_clients is run as the sequence of its basic blocks.  at is the   *)
(* block to run next, i the index of the current client (the iterator i of *)
(* the source; i_next is i + 1, or i once the client at i is erased),      *)
(* target the pending target being handled and success the argument of the *)
(* next complete_request.  The fields cause and requests are not in the    *)
(* program: cause is the place that calls complete_request ("failed" for   *)
(* the label failed reached from a target seen Failed, "sticky" for the    *)
(* label failed reached from the flag of the client at the end of the loop *)
(* body, "finish" for a success there, "circular" after the loop), and     *)
(* requests lists the calls, with the client as it is when completed.      *)
(***************************************************************************)
Goto(s, at, i) == [s EXCEPT !.at = at, !.i = i]

\* The head of the loop over the clients and the loop over i->running.
BlockLoop(s) ==
  IF s.i > Len(s.clients) \/ ~has_free_slots(s) THEN Goto(s, "after", s.i)
  ELSE LET c == s.clients[s.i]
           r == ScanRunning(s.status, c, SetToSeq(c.running))
       IN CASE r.out = "assert" -> Abort(s)
            [] r.out = "failed" ->
                 [Goto(s, "complete", s.i) EXCEPT !.success = FALSE, !.cause = "failed"]
            [] OTHER -> Goto([s EXCEPT !.clients[s.i] = r.c], "pending", s.i)

\* The entries of the status map before that a call get_status(target) has
\* left with another status in the map after.
Overwritten(before, after, target) ==
  {[by |-> target, target |-> u, from |-> before[u].status, to |-> after[u].status] :
     u \in {v \in DOMAIN before : after[v].status # before[v].status}}

\* One round of the loop "Start pending targets", up to the call of start.
\* The field reset is not in the program: it collects the entries that the
\* calls of get_status have overwritten.
BlockPending(s) ==
  IF s.clients[s.i].pending = <<>> THEN Goto(s, "finish", s.i)
  ELSE LET target == Head(s.clients[s.i].pending)
           Switch(s1, st) ==
             CASE st = "Running" -> [s1 EXCEPT !.clients[s.i].running = @ \cup {target}]
               [] st = "Failed" -> Goto(s1, "pending_failed", s.i)
               [] st \in {"Uptodate", "Remade"} ->
                    [s1 EXCEPT !.clients[s.i].seen = @ \cup {target}]
               [] OTHER -> [Goto(s1, "start", s.i) EXCEPT !.target = target]
           Got(s1) ==
             Switch([s1 EXCEPT !.reset = @ \cup Overwritten(s.status, s1.status, target)],
                    s1.status[target].status)
       IN Got(get_status([s EXCEPT !.clients[s.i].pending = Tail(@)], target))

\* case Recheck, case Todo: the call of start and what follows it.
BlockStart(s) ==
  LET Slots(s2) ==
        IF ~has_free_slots(s2) THEN [s2 EXCEPT !.ret = "true"]
        ELSE Goto(s2, "pending", s.i)
      Started(r) ==
        IF ~r.ok THEN Goto(r.s, "pending_failed", s.i)
        ELSE LET j == IF r.inserted THEN s.i + 1 ELSE s.i
             IN Slots([r.s EXCEPT !.clients[j].running = @ \cup {s.target}])
  IN Started(start(s, s.target, s.i))

\* The label "pending_failed" without the test of keep_going: the client is
\* failed at once.
BlockPendingFailed_at_once(s) ==
  [Goto(s, "complete", s.i) EXCEPT !.success = FALSE, !.cause = "failed"]

\* The label "pending_failed".
BlockPendingFailed(s) ==
  IF ~keep_going
  THEN [Goto(s, "complete", s.i) EXCEPT !.success = FALSE, !.cause = "failed"]
  ELSE Goto([s EXCEPT !.clients[s.i].failed = TRUE], "pending", s.i)

\* "Try to complete the request".
BlockFinish(s) ==
  IF s.clients[s.i].running = {}
  THEN [Goto(s, "complete", s.i) EXCEPT
          !.success = ~s.clients[s.i].failed,
          !.cause = IF s.clients[s.i].failed THEN "sticky" ELSE "finish"]
  ELSE Goto(s, "loop", s.i + 1)

\* complete_request(*i, success); clients.erase(i); then the next client.
BlockComplete(s) ==
  LET s1 == complete_request(s, s.i, s.success)
  IN Goto([s1 EXCEPT !.clients = EraseAt(@, s.i),
                     !.requests = Append(@, [client |-> s.clients[s.i],
                                             success |-> s.success,
                                             cause |-> s.cause])],
          "loop", s.i)

\* What follows the loop without the test clients.empty(): handle_clients
\* returns false as soon as no job is left.
BlockAfter_no_job(s) ==
  IF s.running_jobs # s.waiting_jobs THEN [s EXCEPT !.ret = "true"]
  ELSE [s EXCEPT !.ret = "false"]

\* What follows the loop over the clients: the values returned, or the
\* circular dependency, where the first client is failed and the loop
\* restarted.  The field stuck is not in the program: it lists, for each
\* time the circular dependency is reported, the shells, the clients and
\* the status map at that point, and the number of requests completed by
\* the call so far.
BlockAfter(s) ==
  IF s.running_jobs # s.waiting_jobs THEN [s EXCEPT !.ret = "true"]
  ELSE IF s.running_jobs = 0 /\ s.clients = <<>> THEN [s EXCEPT !.ret = "false"]
  ELSE IF s.clients = <<>> THEN Abort(s)
  ELSE [Goto(s, "complete", 1) EXCEPT
          !.success = FALSE, !.circular = @ + 1, !.cause = "circular",
          !.stuck = Append(@, [children |-> s.children, clients |-> s.clients,
                               status |-> s.status, done |-> Len(s.requests)])]

Block(s) ==
  CASE s.at = "loop" -> BlockLoop(s)
    [] s.at = "pending" -> BlockPending(s)
    [] s.at = "start" -> BlockStart(s)
    [] s.at = "pending_failed" -> BlockPendingFailed(s)
    [] s.at = "finish" -> BlockFinish(s)
    [] s.at = "complete" -> BlockComplete(s)
    [] OTHER -> BlockAfter(s)

RECURSIVE RunBlocks(_)
RunBlocks(s) ==
  IF ~s.asserts THEN Abort(s)
  ELSE IF s.ret # "none" THEN s
  ELSE RunBlocks(Block(s))

\* handle_clients(): the field ret of the result is the value returned
\* ("abort" when an assertion fails).
handle_clients(s) == RunBlocks(Goto(s, "loop", 1))

\* The label error of accept_client without clients.erase(proc): the
\* client that push_front has put in the queue stays there.
reject_keep_client(s, fd, job_id) ==
  [s EXCEPT !.clients = <<[NewClient EXCEPT !.socket = fd, !.job_id = job_id]>> \o @,
            !.closed = Append(@, fd)]

\* The label error of accept_client: close(fd) and clients.erase(proc); no
\* byte has been sent on fd.
reject(s, fd, job_id) == [s EXCEPT !.closed = Append(@, fd)]

\* accept_client without ++waiting_jobs.
accept_client_uncounted(s, fd, job_id, targets) ==
  IF job_id \notin DOMAIN s.job_targets THEN reject(s, fd, job_id)
  ELSE LET front == s.job_targets[job_id][1]
           b == IF front \in DOMAIN s.dependencies
                THEN [dependencies |-> s.dependencies, dep_heap |-> s.dep_heap]
                ELSE Bind([dependencies |-> s.dependencies, dep_heap |-> s.dep_heap],
                          <<front>>, Dep(<<>>, {}))
           h == b.dependencies[front]
       IN [s EXCEPT
             !.clients = <<[NewClient EXCEPT !.socket = fd, !.job_id = job_id,
                                             !.pending = targets]>> \o @,
             !.dependencies = b.dependencies,
             !.dep_heap = [b.dep_heap EXCEPT ![h].deps = @ \cup SeqToSet(targets)]]

\* accept_client() for a message that names job_id and lists targets, fd
\* being the accepted socket.
accept_client(s, fd, job_id, targets) ==
  IF job_id \notin DOMAIN s.job_targets THEN reject(s, fd, job_id)
  ELSE LET front == s.job_targets[job_id][1]
           b == IF front \in DOMAIN s.dependencies
                THEN [dependencies |-> s.dependencies, dep_heap |-> s.dep_heap]
                ELSE Bind([dependencies |-> s.dependencies, dep_heap |-> s.dep_heap],
                          <<front>>, Dep(<<>>, {}))
           h == b.dependencies[front]
       IN [s EXCEPT
             !.clients = <<[NewClient EXCEPT !.socket = fd, !.job_id = job_id,
                                             !.pending = targets]>> \o @,
             !.dependencies = b.dependencies,
             !.dep_heap = [b.dep_heap EXCEPT ![h].deps = @ \cup SeqToSet(targets)],
             !.waiting_jobs = @ + 1]

\* finalize_job without --running_jobs.
finalize_job_uncounted(s, pid, res) ==
  IF pid \notin DOMAIN s.job_pids THEN Abort(s)
  ELSE complete_job([s EXCEPT !.job_pids = Erase(@, pid),
                              !.children = Erase(@, pid)],
                    s.job_pids[pid], res)

\* finalize_job(pid, res).
finalize_job(s, pid, res) ==
  IF pid \notin DOMAIN s.job_pids THEN Abort(s)
  ELSE complete_job([s EXCEPT !.job_pids = Erase(@, pid),
                              !.children = Erase(@, pid),
                              !.running_jobs = @ - 1],
                    s.job_pids[pid], res)

(***************************************************************************)
(* The shell scripts.  A script is opaque to the coordinator; what matters *)
(* is which calls to remake it makes, in order (targets; bg when the call  *)
(* is put in the background with &; ignore when its exit status is not     *)
(* looked at, as in "remake d || true"), and which of the files it writes  *)
(* when it succeeds.  The shell runs with -e: a foreground call whose      *)
(* status is looked at and that fails ends the script with a failure.      *)
(***************************************************************************)
Call(t, bg, ignore) == [targets |-> t, bg |-> bg, ignore |-> ignore]

RemakefileName == "Remakefile"

ScriptCalls(script) ==
  CASE script = "remake b; touch a" -> <<Call(<<"b">>, FALSE, FALSE)>>
    [] script = "remake n || true; touch a" -> <<Call(<<"n">>, FALSE, TRUE)>>
    [] script = "remake b & touch x" -> <<Call(<<"b">>, TRUE, FALSE)>>
    [] script = "remake n a; touch a" -> <<Call(<<"n", "a">>, FALSE, FALSE)>>
    [] script = "remake b; touch p" -> <<Call(<<"b">>, FALSE, FALSE)>>
    [] script = "remake b; touch q" -> <<Call(<<"b">>, FALSE, FALSE)>>
    [] script = "remake s; remake y; touch x" ->
         <<Call(<<"s">>, FALSE, FALSE), Call(<<"y">>, FALSE, FALSE)>>
    [] OTHER -> <<>>

\* The files that a script writes before it exits with success.
ScriptWrites(script) ==
  CASE script = "cat in > out" -> {"out"}
    [] script = "remake b; touch a" -> {"a"}
    [] script = "remake n || true; touch a" -> {"a"}
    [] script = "remake n a; touch a" -> {"a"}
    [] script = "touch b" -> {"b"}
    [] script = "remake b; touch p" -> {"p"}
    [] script = "remake b; touch q" -> {"q"}
    [] script = "touch y" -> {"y"}
    [] script = "remake b & touch x" -> {"x"}
    [] script = "touch x" -> {"x"}
    [] script = "touch z" -> {"z"}
    [] script = "touch w" -> {"w"}
    [] script = "touch c" -> {"c"}
    [] script = "remake s; remake y; touch x" -> {"x"}
    [] script = "touch x; touch y" -> {"x", "y"}
    [] script = "cp f.c f.o" -> {"f.o"}
    [] script = "cp Remakefile.in Remakefile" -> {RemakefileName}
    [] OTHER -> {}

(***************************************************************************)
(* The scenarios: a rule file (the rules that load_rules parses, in        *)
(* order), the content of .remake, the files, the command line.            *)
(* regenerated is what the rule file holds once a script has written it.   *)
(***************************************************************************)
Scen(n, rules, db, fs, targets, jobs, keep) ==
  [name |-> n, rules |-> rules, regenerated |-> rules, db |-> db, files |-> fs,
   targets |-> targets, jobs |-> jobs, keep |-> keep]

Regenerating(sc, rules) == [sc EXCEPT !.regenerated = rules]


\* The fresh build of the specification: all: out / out: in.
FreshRules ==
  <<Rule(<<"all">>, <<"out">>, ""), Rule(<<"out">>, <<"in">>, "cat in > out")>>

\* A script that asks for a dynamic prerequisite.
DynamicRules ==
  <<Rule(<<"a">>, <<>>, "remake b; touch a"), Rule(<<"b">>, <<>>, "touch b")>>

\* A script that asks for a target without rule and for its own target.
SelfRules == <<Rule(<<"a">>, <<>>, "remake n a; touch a")>>

\* A script that ignores the failure of its dynamic prerequisite, which has
\* no rule.
IgnoreRules == <<Rule(<<"a">>, <<>>, "remake n || true; touch a")>>

\* A request in the background for a target that depends on itself.
CycleRules ==
  <<Rule(<<"x">>, <<>>, "remake b & touch x"), Rule(<<"y">>, <<>>, "true"),
    Rule(<<"b">>, <<"b">>, "touch b")>>

\* Two scripts that ask for the same dynamic prerequisite, and a third target.
DiamondRules ==
  <<Rule(<<"p">>, <<>>, "remake b; touch p"), Rule(<<"q">>, <<>>, "remake b; touch q"),
    Rule(<<"b">>, <<>>, "touch b"), Rule(<<"y">>, <<>>, "touch y")>>

\* A rule file whose rule "x y: s" was split after .remake was written.
SplitRules ==
  <<Rule(<<"x">>, <<"s">>, "touch x"), Rule(<<"y">>, <<>>, ""),
    Rule(<<"z">>, <<"x", "y">>, "touch z"), Rule(<<"w">>, <<"x">>, "touch w")>>

SplitRules2 ==
  <<Rule(<<"x">>, <<>>, "remake s; remake y; touch x"), Rule(<<"y">>, <<"x">>, "")>>

\* A script with a static prerequisite and, from an earlier run, a dynamic
\* one that is missing.
DynamicOldRules ==
  <<Rule(<<"a">>, <<"s">>, "remake b; touch a"), Rule(<<"b">>, <<>>, "touch b")>>

\* A target c that is newer than its prerequisite d, d being obsolete and
\* its script leaving it as it is.
RecheckRules ==
  <<Rule(<<"c">>, <<"d">>, "touch c"), Rule(<<"d">>, <<"e">>, "true")>>

\* A rule with two targets.
SiblingRules == <<Rule(<<"x", "y">>, <<"s">>, "touch x; touch y")>>

\* A generic rule.
PatternRules == <<Rule(<<"%.o">>, <<"%.c">>, "cp f.c f.o")>>

\* A rule file that is generated from Remakefile.in.
BootRules ==
  <<Rule(<<"out">>, <<"in">>, "cat in > out"),
    Rule(<<RemakefileName>>, <<"Remakefile.in">>, "cp Remakefile.in Remakefile")>>

\* What Remakefile.in holds: another first rule.
BootRules2 ==
  <<Rule(<<"b">>, <<>>, "touch b"), Rule(<<"out">>, <<"in">>, "cat in > out"),
    Rule(<<RemakefileName>>, <<"Remakefile.in">>, "cp Remakefile.in Remakefile")>>

\* A rule file that is generated, and that an earlier run has recorded as a
\* prerequisite of b.
BootDepRules ==
  <<Rule(<<"b">>, <<>>, "touch b"),
    Rule(<<RemakefileName>>, <<"Remakefile.in">>, "cp Remakefile.in Remakefile")>>

\* Rule files with an error: two scripted rules for out, a rule with a
\* generic and a specific target, a rule without target.
SeveralRules ==
  <<Rule(<<"out">>, <<"in">>, "cat in > out"), Rule(<<"out">>, <<>>, "touch out")>>

MixedRules == <<Rule(<<"%.o", "x">>, <<"%.c">>, "cp f.c f.o")>>

NoTargetRules == <<Rule(<<"b">>, <<>>, "touch b"), Rule(<<>>, <<"in">>, "touch b")>>

Fs(f) == (RemakefileName :> 1) @@ f

Scenarios ==
  { Scen("fresh", FreshRules, <<>>, Fs("in" :> 1), <<"all">>, 1, FALSE),
    Scen("fresh-n", FreshRules, <<>>, Fs("in" :> 1), <<"all", "n">>, 2, FALSE),
    Scen("fresh-old", FreshRules, <<>>, Fs("in" :> 2 @@ "out" :> 1), <<"all">>, 1, FALSE),
    Scen("dynamic", DynamicRules, <<>>, Fs(<<>>), <<"a">>, 1, FALSE),
    Scen("dynamic-j0", DynamicRules, <<>>, Fs(<<>>), <<"a", "b">>, 0, TRUE),
    Scen("ignore", IgnoreRules, <<>>, Fs(<<>>), <<"a">>, 1, FALSE),
    Scen("ignore-k", IgnoreRules, <<>>, Fs(<<>>), <<"n", "a">>, 1, TRUE),
    Scen("diamond", DiamondRules, <<>>, Fs(<<>>), <<"p", "q", "y">>, 2, FALSE),
    Scen("cycle-j1", CycleRules, <<>>, Fs(<<>>), <<"x", "y">>, 1, FALSE),
    Scen("cycle-j2", CycleRules, <<>>, Fs(<<>>), <<"x", "y">>, 2, FALSE),
    Scen("split", SplitRules, << <<<<"x", "y">>, <<"s">>>> >>,
         Fs("s" :> 1 @@ "x" :> 2), <<"z">>, 1, FALSE),
    Scen("split-old", SplitRules, << <<<<"x", "y">>, <<"s">>>> >>,
         Fs("s" :> 2 @@ "x" :> 1), <<"z", "w">>, 3, FALSE),
    Scen("split-j2", SplitRules, << <<<<"x", "y">>, <<"s">>>> >>,
         Fs("s" :> 2 @@ "x" :> 1), <<"z">>, 2, FALSE),
    Scen("split-dyn", SplitRules2, << <<<<"x", "y">>, <<"s">>>> >>,
         Fs("s" :> 1), <<"x">>, 1, FALSE),
    Scen("sibling", SiblingRules, << <<<<"x", "y">>, <<"s">>>> >>,
         Fs("s" :> 1 @@ "x" :> 2), <<"x", "y">>, 2, TRUE),
    Scen("pattern", PatternRules, <<>>, Fs("f.c" :> 1), <<"f.o">>, 1, FALSE),
    Scen("self-k", SelfRules, <<>>, Fs(<<>>), <<"a">>, 1, TRUE),
    Scen("dynamic-old", DynamicOldRules, << <<<<"a">>, <<"s", "b">>>> >>,
         Fs("s" :> 1 @@ "a" :> 2), <<"a">>, 1, FALSE),
    Scen("recheck", RecheckRules, <<>>, Fs("e" :> 2 @@ "d" :> 1 @@ "c" :> 2),
         <<"c">>, 1, FALSE),
    Regenerating(Scen("boot", BootRules, <<>>, Fs("Remakefile.in" :> 2 @@ "in" :> 1),
                      <<>>, 1, FALSE), BootRules2),
    Regenerating(Scen("boot-out", BootRules, <<>>, Fs("Remakefile.in" :> 2 @@ "in" :> 1),
                      <<"out">>, 1, TRUE), BootRules2),
    Regenerating(Scen("boot-several", BootRules, <<>>, Fs("Remakefile.in" :> 2 @@ "in" :> 1),
                      <<"out">>, 1, FALSE), SeveralRules),
    Regenerating(Scen("boot-mixed", BootRules, <<>>, Fs("Remakefile.in" :> 2 @@ "in" :> 1),
                      <<"out">>, 1, FALSE), MixedRules),
    Regenerating(Scen("boot-pattern", BootRules, <<>>,
                      Fs("Remakefile.in" :> 2 @@ "f.c" :> 1), <<"f.o">>, 1, FALSE),
                 PatternRules),
    Scen("boot-dep", BootDepRules, << <<<<"b">>, <<RemakefileName>>>> >>,
         Fs("Remakefile.in" :> 2), <<"b">>, 1, FALSE),
    Scen("several", SeveralRules, <<>>, Fs("in" :> 1), <<"out">>, 1, FALSE),
    Scen("mixed", MixedRules, <<>>, Fs("f.c" :> 1), <<"f.o">>, 1, FALSE),
    Scen("no-target", NoTargetRules, <<>>, Fs(<<>>), <<"b">>, 1, FALSE),
    Scen("no-remakefile", FreshRules, <<>>, "in" :> 1, <<"all">>, 1, FALSE) }

(***************************************************************************)
(* save_dependencies: the lines written to .remake.  Each line is taken    *)
(* from the first binding of the map, and the targets of its record are    *)
(* erased from the map.                                                    *)
(***************************************************************************)
RECURSIVE save_dependencies(_, _)
save_dependencies(deps, heap) ==
  IF DOMAIN deps = {} THEN <<>>
  ELSE LET t == MinStr(DOMAIN deps)
           dep == heap[deps[t]]
       IN <<<<dep.targets, SetToSeq(dep.deps)>>>> \o
          save_dependencies(Restrict(deps, (DOMAIN deps) \ SeqToSet(dep.targets)), heap)

(***************************************************************************)
(* server_mode up to the first server_loop: load_dependencies, load_rules, *)
(* get_status of the rule file, and the client of the rule file if it is   *)
(* not up to date, of the command line otherwise.                          *)
(***************************************************************************)
\* What the rule file holds: the files that exist before the first run are
\* older than StartTime, the files that a script writes are not.
RuleFile(sc, fs) ==
  IF fs[RemakefileName] >= StartTime THEN sc.regenerated ELSE sc.rules

\* load_rules on the rule file, from the rules and dependencies of ld.
Loaded(ld, sc, fs) ==
  IF RemakefileName \notin DOMAIN fs
  THEN [ld EXCEPT !.error = "no Remakefile found"]
  ELSE load_rules(ld, RuleFile(sc, fs))

\* The rules are kept.
Cleared_nothing(ld) == ld

\* specific_rules.clear(), generic_rules.clear(), first_target.clear().
Cleared(ld) ==
  [ld EXCEPT !.specific_rules = <<>>, !.generic_rules = <<>>, !.first_target = ""]

\* The client of the command line: the targets given, or first_target.
CommandLine(sc, first) ==
  [NewClient EXCEPT !.pending = IF sc.targets # <<>> THEN sc.targets
                                ELSE IF first # "" THEN <<first>>
                                ELSE <<>>]

Startup(sc, db, fs, time, r) ==
  LET Serve(ld, st) ==
        [scenario |-> sc,
         error |-> ld.error,
         bootstrap |-> ld.error = "" /\ StatusOf(st, RemakefileName) # "Uptodate",
         first_target |-> ld.first_target,
         specific_rules |-> ld.specific_rules,
         generic_rules |-> ld.generic_rules,
         dependencies |-> ld.store.dependencies,
         dep_heap |-> ld.store.dep_heap,
         status |-> st,
         clients |-> IF ld.error # "" THEN <<>>
                     ELSE IF StatusOf(st, RemakefileName) # "Uptodate"
                     THEN <<[NewClient EXCEPT !.pending = <<RemakefileName>>]>>
                     ELSE <<CommandLine(sc, ld.first_target)>>,
         max_active_jobs |-> sc.jobs,
         keep_going |-> sc.keep,
         now |-> time,
         files |-> fs,
         remake_db |-> db,
         run |-> r]
      Status(ld) ==
        IF ld.error # "" THEN <<>>
        ELSE get_status([status |-> <<>>,
                         dependencies |-> ld.store.dependencies,
                         dep_heap |-> ld.store.dep_heap, files |-> fs,
                         observed |-> <<>>],
                        RemakefileName).status
      Go(ld) == Serve(ld, Status(ld))
  IN Go(Loaded([specific_rules |-> <<>>, generic_rules |-> <<>>,
                store |-> load_dependencies(EmptyStore, db),
                first_target |-> "", error |-> ""], sc, fs))

Init ==
  \E sc \in Scenarios : \E st \in {Startup(sc, sc.db, sc.files, StartTime, 1)} :
    /\ scenario = st.scenario
    /\ specific_rules = st.specific_rules
    /\ generic_rules = st.generic_rules
    /\ dependencies = st.dependencies
    /\ dep_heap = st.dep_heap
    /\ status = st.status
    /\ clients = st.clients
    /\ max_active_jobs = st.max_active_jobs
    /\ keep_going = st.keep_going
    /\ now = st.now
    /\ files = st.files
    /\ remake_db = st.remake_db
    /\ run = st.run
    /\ job_targets = <<>>
    /\ job_pids = <<>>
    /\ running_jobs = 0
    /\ waiting_jobs = 0
    /\ job_counter = 0
    /\ build_failure = FALSE
    /\ pc = IF st.error # "" THEN "exited" ELSE "handle"
    /\ children = <<>>
    /\ replies = <<>>
    /\ accepted = <<>>
    /\ exit_status = IF st.error # "" THEN "EXIT_FAILURE" ELSE "none"
    /\ bootstrap = st.bootstrap
    /\ first_target = st.first_target
    /\ interrupted = FALSE
    /\ rejected = <<>>
    /\ spawned = 0
    /\ trace = [kind |-> "start", spawns |-> <<>>, completed |-> <<>>, circular |-> 0,
             started |-> <<>>, requests |-> <<>>, closed |-> <<>>,
             stuck |-> <<>>, reset |-> {}]

(***************************************************************************)
(* The steps of server_loop and of its environment.                        *)
(***************************************************************************)
\* The state that a handler leaves.
Leave(r) ==
  /\ status' = r.status
  /\ dependencies' = r.dependencies
  /\ dep_heap' = r.dep_heap
  /\ job_targets' = r.job_targets
  /\ job_pids' = r.job_pids
  /\ clients' = r.clients
  /\ running_jobs' = r.running_jobs
  /\ waiting_jobs' = r.waiting_jobs
  /\ job_counter' = r.job_counter
  /\ build_failure' = r.build_failure
  /\ files' = r.files
  /\ children' = r.children
  /\ replies' = r.replies
  /\ spawned' = spawned + Len(r.spawns)

TraceOf(kind, r) ==
  [kind |-> kind, spawns |-> r.spawns, completed |-> r.completed,
   circular |-> r.circular, started |-> r.started, requests |-> r.requests,
   closed |-> r.closed, stuck |-> r.stuck, reset |-> r.reset]

\* One call of handle_clients by server_loop.
HandleClients ==
  /\ pc = "handle"
  /\ \E r \in {handle_clients(Machine)} :
     /\ Leave(r)
     /\ pc' = CASE r.ret = "true" -> "wait"
                [] r.ret = "false" -> "done"
                [] OTHER -> "abort"
     /\ trace' = TraceOf("handle", r)
  /\ UNCHANGED <<specific_rules, generic_rules, max_active_jobs, keep_going,
                 now, accepted, remake_db, scenario, run, exit_status, bootstrap,
                 first_target, interrupted, rejected>>

\* The shells of ch that are not waiting for the reply to a foreground call.
Unblocked(ch) == {p \in DOMAIN ch : ch[p].blocked = InvalidSocket}

\* The next call to remake of the script of child p, if it has one left.
HasCall(p) ==
  /\ p \in Unblocked(children)
  /\ ~children[p].doomed
  /\ children[p].sent < Len(ScriptCalls(children[p].script))

NextCall(p) == ScriptCalls(children[p].script)[children[p].sent + 1]

\* The socket that accept() returns for the next connection.
NextSocket == Cardinality(DOMAIN accepted) + Cardinality(DOMAIN rejected) + 1

\* The script of child p calls remake: client_mode sends REMAKE_JOB_ID and
\* the targets, and accept_client reads them.
Accepted(p) ==
  accept_client(
    [Machine EXCEPT
       !.children[p] = [@ EXCEPT !.sent = @ + 1,
                                 !.blocked = IF NextCall(p).bg THEN InvalidSocket
                                             ELSE NextSocket,
                                 !.ignore = NextCall(p).ignore]],
    NextSocket, job_pids[p], NextCall(p).targets)

Request(p) ==
  accepted @@ (NextSocket :> [job_id |-> job_pids[p],
                              targets |-> NextCall(p).targets, bg |-> NextCall(p).bg])

\* A shell can exit with a failure whenever it is not blocked, and with
\* success once its script has made all its calls.  The shells of Z exit,
\* those of ok with status 0.
CanExit(ch, Z, ok) ==
  /\ Z # {}
  /\ Z \subseteq Unblocked(ch)
  /\ Cardinality(Z) <= MaxReap
  /\ ok \subseteq Z
  /\ \A p \in ok : ~ch[p].doomed /\ ch[p].sent = Len(ScriptCalls(ch[p].script))

\* The files after the scripts of the children ok have written their outputs.
Written(fs, ch, ok) ==
  LET W == UNION {ScriptWrites(ch[p].script) : p \in ok}
  IN [f \in (DOMAIN fs) \cup W |-> IF f \in W THEN now ELSE fs[f]]

\* The waitpid loop of server_loop: finalize_job for each child of Z.
RECURSIVE FinalizeAll(_, _, _)
FinalizeAll(s, Z, ok) ==
  IF Z = {} THEN s
  ELSE LET p == CHOOSE x \in Z : \A y \in Z : x <= y
       IN FinalizeAll(finalize_job(s, p, p \in ok), Z \ {p}, ok)

Reaped(s, Z, ok) ==
  FinalizeAll([s EXCEPT !.files = Written(s.files, s.children, ok)], Z, ok)

\* pselect returns for a connection only: accept_client.
AcceptClient(p) ==
  /\ pc = "wait"
  /\ HasCall(p)
  /\ \E r \in {Accepted(p)} :
        /\ Leave(r)
        /\ trace' = TraceOf("accept", r)
  /\ accepted' = Request(p)
  /\ pc' = "handle"
  /\ UNCHANGED <<specific_rules, generic_rules, max_active_jobs, keep_going,
                 now, remake_db, scenario, run, exit_status, bootstrap,
                 first_target, interrupted, rejected>>

\* A process that is not the shell of a live job (a call to remake left in
\* the background by a script that has ended, or made outside of any
\* script) connects and names job_id: accept_client.
AcceptStray(job_id, targets) ==
  /\ pc = "wait"
  /\ Cardinality(DOMAIN rejected) < MaxStray
  /\ job_id \notin DOMAIN job_targets
  /\ \E r \in {accept_client(Machine, NextSocket, job_id, targets)} :
        /\ Leave(r)
        /\ trace' = TraceOf("accept", r)
        /\ rejected' = rejected @@ [fd \in SeqToSet(r.closed) |->
                                      [job_id |-> job_id, targets |-> targets]]
  /\ pc' = "handle"
  /\ UNCHANGED <<specific_rules, generic_rules, max_active_jobs, keep_going,
                 now, accepted, remake_db, scenario, run, exit_status, bootstrap,
                 first_target, interrupted>>

\* client_mode after the request is sent: recv and exit, bytes being what
\* the server has sent on the socket before closing it.
client_mode(bytes) ==
  IF Len(bytes) # 1 THEN "EXIT_FAILURE"
  ELSE IF bytes[1] # 0 THEN "EXIT_SUCCESS" ELSE "EXIT_FAILURE"

\* pselect is interrupted by SIGCHLD: the waitpid loop.
ReapChildren(Z, ok) ==
  /\ pc = "wait"
  /\ CanExit(children, Z, ok)
  /\ \E r \in {Reaped(Machine, Z, ok)} :
        /\ Leave(r)
        /\ trace' = TraceOf("reap", r)
        /\ pc' = IF r.asserts THEN "handle" ELSE "abort"
  /\ UNCHANGED <<specific_rules, generic_rules, max_active_jobs, keep_going,
                 now, accepted, remake_db, scenario, run, exit_status, bootstrap,
                 first_target, interrupted, rejected>>

\* pselect returns for a connection and SIGCHLD has been received: one
\* round of the loop calls accept_client and then the waitpid loop.
AcceptAndReap(p, Z, ok) ==
  /\ pc = "wait"
  /\ HasCall(p)
  /\ \E a \in {Accepted(p)} :
        /\ CanExit(a.children, Z, ok)
        /\ \E r \in {Reaped(a, Z, ok)} :
              /\ Leave(r)
              /\ trace' = TraceOf("accept-reap", r)
              /\ pc' = IF r.asserts THEN "handle" ELSE "abort"
  /\ accepted' = Request(p)
  /\ UNCHANGED <<specific_rules, generic_rules, max_active_jobs, keep_going,
                 now, remake_db, scenario, run, exit_status, bootstrap,
                 first_target, interrupted, rejected>>

\* The end of server_mode: save_dependencies and
\* exit(build_failure ? EXIT_FAILURE : EXIT_SUCCESS).
Exit ==
  /\ pc = "done"
  /\ ~bootstrap \/ build_failure
  /\ pc' = "exited"
  /\ remake_db' = save_dependencies(dependencies, dep_heap)
  /\ exit_status' = IF build_failure THEN "EXIT_FAILURE" ELSE "EXIT_SUCCESS"
  /\ trace' = [kind |-> "exit", spawns |-> <<>>, completed |-> <<>>, circular |-> 0,
             started |-> <<>>, requests |-> <<>>, closed |-> <<>>,
             stuck |-> <<>>, reset |-> {}]
  /\ UNCHANGED <<specific_rules, generic_rules, dependencies, dep_heap, status,
                 job_targets, job_pids, clients, max_active_jobs, keep_going,
                 running_jobs, waiting_jobs, job_counter, build_failure, now,
                 files, children, replies, accepted, scenario, run, bootstrap,
                 first_target, interrupted, rejected, spawned>>

\* The first server_loop has built the rule file: the rules are cleared and
\* load_rules parses the file again, then the client of the command line
\* is created.  The dependencies and the status map are kept.
Reload ==
  /\ pc = "done"
  /\ bootstrap /\ ~build_failure
  /\ \E ld \in {Loaded(Cleared([specific_rules |-> specific_rules,
                                  generic_rules |-> generic_rules,
                                  store |-> [dependencies |-> dependencies,
                                             dep_heap |-> dep_heap],
                                  first_target |-> first_target, error |-> ""]),
                         scenario, files)} :
       /\ specific_rules' = ld.specific_rules
       /\ first_target' = ld.first_target
       /\ generic_rules' = ld.generic_rules
       /\ dependencies' = ld.store.dependencies
       /\ dep_heap' = ld.store.dep_heap
       /\ clients' = IF ld.error # "" THEN clients
                     ELSE Append(clients, CommandLine(scenario, ld.first_target))
       /\ pc' = IF ld.error # "" THEN "exited" ELSE "handle"
       /\ exit_status' = IF ld.error # "" THEN "EXIT_FAILURE" ELSE exit_status
  /\ bootstrap' = FALSE
  /\ trace' = [kind |-> "reload", spawns |-> <<>>, completed |-> <<>>, circular |-> 0,
             started |-> <<>>, requests |-> <<>>, closed |-> <<>>,
             stuck |-> <<>>, reset |-> {}]
  /\ UNCHANGED <<status, job_targets, job_pids, max_active_jobs, keep_going,
                 running_jobs, waiting_jobs, job_counter, build_failure, now,
                 files, children, replies, accepted, remake_db, scenario, run,
                 interrupted, rejected, spawned>>

\* SIGINT is delivered to the server: sigint_handler.  pselect, if the
\* server is in it, returns EINTR and server_loop calls handle_clients.
Sigint ==
  /\ pc \in {"handle", "wait"}
  /\ ~interrupted
  /\ interrupted' = TRUE
  /\ keep_going' = FALSE
  /\ pc' = "handle"
  /\ trace' = [kind |-> "sigint", spawns |-> <<>>, completed |-> <<>>, circular |-> 0,
             started |-> <<>>, requests |-> <<>>, closed |-> <<>>,
             stuck |-> <<>>, reset |-> {}]
  /\ UNCHANGED <<specific_rules, generic_rules, dependencies, dep_heap, status,
                 job_targets, job_pids, clients, max_active_jobs, running_jobs,
                 waiting_jobs, job_counter, build_failure, now, files, children,
                 replies, accepted, remake_db, scenario, run, exit_status,
                 bootstrap, first_target, rejected, spawned>>

\* remake is invoked again with the same rule file and command line, no
\* file having been modified in between.
NextRun ==
  /\ pc = "exited"
  /\ run < MaxRuns
  /\ \E st \in {Startup(scenario, remake_db, files, now + 1, run + 1)} :
     /\ specific_rules' = st.specific_rules
     /\ generic_rules' = st.generic_rules
     /\ dependencies' = st.dependencies
     /\ dep_heap' = st.dep_heap
     /\ status' = st.status
     /\ clients' = st.clients
     /\ now' = st.now
     /\ run' = st.run
     /\ bootstrap' = st.bootstrap
     /\ first_target' = st.first_target
     /\ keep_going' = st.keep_going
     /\ pc' = IF st.error # "" THEN "exited" ELSE "handle"
     /\ exit_status' = IF st.error # "" THEN "EXIT_FAILURE" ELSE exit_status
  /\ interrupted' = FALSE
  /\ rejected' = <<>>
  /\ spawned' = 0
  /\ job_targets' = <<>>
  /\ job_pids' = <<>>
  /\ running_jobs' = 0
  /\ waiting_jobs' = 0
  /\ job_counter' = 0
  /\ build_failure' = FALSE
  /\ children' = <<>>
  /\ replies' = <<>>
  /\ accepted' = <<>>
  /\ trace' = [kind |-> "start", spawns |-> <<>>, completed |-> <<>>, circular |-> 0,
             started |-> <<>>, requests |-> <<>>, closed |-> <<>>,
             stuck |-> <<>>, reset |-> {}]
  /\ UNCHANGED <<max_active_jobs, files, remake_db, scenario>>

Next ==
  \/ HandleClients
  \/ \E p \in DOMAIN children : AcceptClient(p)
  \/ \E Z \in SUBSET (DOMAIN children) : \E ok \in SUBSET Z : ReapChildren(Z, ok)
  \/ \E p \in DOMAIN children : \E Z \in SUBSET (DOMAIN children) :
       \E ok \in SUBSET Z : AcceptAndReap(p, Z, ok)
  \/ Exit
  \/ Reload
  \/ Sigint
  \/ \E job_id \in -1..(job_counter - 1) : AcceptStray(job_id, <<"b">>)
  \/ NextRun

Spec == Init /\ [][Next]_vars

\* The states where server_loop or one of the shells can take a step: the
\* server is not in pselect, or it is and some shell is not waiting for a
\* reply (such a shell connects or exits), or remake can be invoked again.
CanStep ==
  \/ pc \in {"handle", "done"}
  \/ pc = "wait" /\ Unblocked(children) # {}
  \/ pc = "exited" /\ run < MaxRuns

\* A step of the server or of a shell: every action of Next but Sigint and
\* AcceptStray changes pc or run, and CanStep is the enabling condition of
\* these actions.
Step ==
  /\ CanStep
  /\ pc' \in {"handle", "wait", "done", "abort", "exited"}
  /\ run' \in 1..MaxRuns

\* Each step of Next is one of Step, the delivery of SIGINT or a request of
\* a process that is not the shell of a live job.
StepIsNext ==
  [][\/ Sigint
     \/ \E job_id \in -1..(job_counter - 1) : AcceptStray(job_id, <<"b">>)
     \/ CanStep /\ <<pc, run>>' # <<pc, run>>]_vars

\* The server and the shells are processes that the system schedules: the
\* program does not stop while a step is possible.  Nothing requires that
\* SIGINT is ever sent, nor that a process outside the live jobs connects.
LiveSpec == Spec /\ WF_<<pc, run>>(Step)

(***************************************************************************)
(* get_status on its own: a dependency store as load_dependencies leaves   *)
(* it for a file .remake of at most MaxLines lines, any set of files with  *)
(* modification times up to MaxMtime, and calls of get_status in any       *)
(* order.  trace holds the target of the last call, the status map before  *)
(* it and the values that the loop over the prerequisites has read.        *)
(***************************************************************************)
MaxLines == 2

MaxMtime == 2

GsTargets == {"a", "b", "c"}

\* The lines of .remake: <<targets, prerequisites>>.
GsLines ==
  { <<<<"a">>, <<"b">>>>, <<<<"a", "b">>, <<"c">>>>, <<<<"b">>, <<"a">>>>,
    <<<<"b", "c">>, <<>>>>, <<<<"a">>, <<"b", "c">>>> }

GsInit ==
  /\ \E n \in 0..MaxLines : \E db \in [1..n -> GsLines] :
       \E store \in {load_dependencies(EmptyStore, db)} :
          /\ remake_db = db
          /\ dependencies = store.dependencies
          /\ dep_heap = store.dep_heap
  /\ \E S \in SUBSET GsTargets : files \in [S -> 1..MaxMtime]
  /\ status = <<>>
  /\ trace = [kind |-> "start", target |-> "", before |-> <<>>, observed |-> <<>>]
  /\ pc = "get_status"
  /\ specific_rules = <<>>
  /\ generic_rules = <<>>
  /\ job_targets = <<>>
  /\ job_pids = <<>>
  /\ clients = <<>>
  /\ max_active_jobs = 1
  /\ keep_going = FALSE
  /\ running_jobs = 0
  /\ waiting_jobs = 0
  /\ job_counter = 0
  /\ build_failure = FALSE
  /\ now = MaxMtime + 1
  /\ children = <<>>
  /\ replies = <<>>
  /\ accepted = <<>>
  /\ scenario = "get_status"
  /\ run = 1
  /\ exit_status = "none"
  /\ bootstrap = FALSE
  /\ first_target = ""
  /\ interrupted = FALSE
  /\ rejected = <<>>
  /\ spawned = 0

\* One call get_status(t) that starts from an empty status map: what the
\* earlier calls have concluded is not kept.
GetStatus_forgetful(t) ==
  /\ pc = "get_status"
  /\ \E r \in {get_status([status |-> <<>>, dependencies |-> dependencies,
                           dep_heap |-> dep_heap, files |-> files,
                           observed |-> <<>>], t)} :
       /\ status' = r.status @@ status
       /\ trace' = [kind |-> "get_status", target |-> t, before |-> status,
                    observed |-> r.observed]
  /\ UNCHANGED <<specific_rules, generic_rules, dependencies, dep_heap,
                 job_targets, job_pids, clients, max_active_jobs, keep_going,
                 running_jobs, waiting_jobs, job_counter, build_failure, now, pc,
                 files, children, replies, accepted, remake_db, scenario, run,
                 exit_status, bootstrap, first_target, interrupted, rejected, spawned>>

\* One call get_status(t).
GetStatus(t) ==
  /\ pc = "get_status"
  /\ \E r \in {get_status([status |-> status, dependencies |-> dependencies,
                           dep_heap |-> dep_heap, files |-> files,
                           observed |-> <<>>], t)} :
       /\ status' = r.status
       /\ trace' = [kind |-> "get_status", target |-> t, before |-> status,
                    observed |-> r.observed]
  /\ UNCHANGED <<specific_rules, generic_rules, dependencies, dep_heap,
                 job_targets, job_pids, clients, max_active_jobs, keep_going,
                 running_jobs, waiting_jobs, job_counter, build_failure, now, pc,
                 files, children, replies, accepted, remake_db, scenario, run,
                 exit_status, bootstrap, first_target, interrupted, rejected, spawned>>

GsNext == \E t \in GsTargets : GetStatus(t)

GsSpec == GsInit /\ [][GsNext]_vars

(***************************************************************************)
(* update_status on its own: a target t whose file has any modification    *)
(* time up to MaxStamp or is missing, a startup time, the entry that       *)
(* get_status has recorded for t, and a script that leaves the file as it  *)
(* is, writes it or removes it before the job completes.  trace holds the  *)
(* recorded value, the modification time that the script leaves (0 when    *)
(* the file is missing) and the entry after the call.                      *)
(***************************************************************************)
MaxStamp == 5

\* The file of t with modification time m, no file when m is 0.
UsFile(m) == IF m = 0 THEN <<>> ELSE "t" :> m

UsInit ==
  /\ \E m \in 0..MaxStamp :
       /\ files = UsFile(m)
       /\ status = SetStatus(get_status([status |-> <<>>, dependencies |-> <<>>,
                                          dep_heap |-> <<>>, files |-> UsFile(m),
                                          observed |-> <<>>], "t").status,
                             "t", "Running")
  /\ now \in 1..MaxStamp
  /\ trace = [kind |-> "start", last |-> 0, mtime |-> 0, after |-> DefaultStatus]
  /\ pc = "running"
  /\ dependencies = <<>>
  /\ dep_heap = <<>>
  /\ remake_db = <<>>
  /\ specific_rules = <<>>
  /\ generic_rules = <<>>
  /\ job_targets = <<>>
  /\ job_pids = <<>>
  /\ clients = <<>>
  /\ max_active_jobs = 1
  /\ keep_going = FALSE
  /\ running_jobs = 0
  /\ waiting_jobs = 0
  /\ job_counter = 0
  /\ build_failure = FALSE
  /\ children = <<>>
  /\ replies = <<>>
  /\ accepted = <<>>
  /\ scenario = "update_status"
  /\ run = 1
  /\ exit_status = "none"
  /\ bootstrap = FALSE
  /\ first_target = ""
  /\ interrupted = FALSE
  /\ rejected = <<>>
  /\ spawned = 0

\* The script of t ends with success, leaving the file with modification
\* time m (no file when m is 0), and complete_job calls update_status(t).
UpdateStatus(m) ==
  /\ pc = "running"
  /\ \E r \in {update_status([status |-> status, files |-> UsFile(m),
                               asserts |-> TRUE], "t")} :
       /\ status' = r.status
       /\ files' = r.files
       /\ trace' = [kind |-> "update_status", last |-> status["t"].last,
                    mtime |-> m, after |-> r.status["t"]]
  /\ pc' = "updated"
  /\ UNCHANGED <<specific_rules, generic_rules, dependencies, dep_heap,
                 job_targets, job_pids, clients, max_active_jobs, keep_going,
                 running_jobs, waiting_jobs, job_counter, build_failure, now,
                 children, replies, accepted, remake_db, scenario, run,
                 exit_status, bootstrap, first_target, interrupted, rejected, spawned>>

UsNext == \E m \in 0..MaxStamp : UpdateStatus(m)

UsSpec == UsInit /\ [][UsNext]_vars

(***************************************************************************)
(* normalize on its own: a working directory, a path of at most MaxPath    *)
(* characters, and calls of normalize on the path and then on its results. *)
(* trace holds the path given, the argument of the last call and the       *)
(* string returned.                                                        *)
(***************************************************************************)
MaxPath == 5

PathChars == {"/", ".", "a", "b"}

WorkingDirs == {"/", "/a", "/a/b"}

RECURSIVE PathsOfLength(_)
PathsOfLength(n) ==
  IF n = 0 THEN {""}
  ELSE {s \o c : s \in PathsOfLength(n - 1), c \in PathChars}

\* std::string::find_first_of('/', from) and rfind('/', from), positions
\* counted from 0; -1 is npos.
FindSlash(s, from) ==
  LET S == {i \in from..(Len(s) - 1) : CharAt(s, i + 1) = "/"}
  IN IF S = {} THEN -1 ELSE CHOOSE i \in S : \A k \in S : i <= k

RFindSlash(s, from) ==
  LET S == {i \in 0..from : i < Len(s) /\ CharAt(s, i + 1) = "/"}
  IN IF S = {} THEN -1 ELSE CHOOSE i \in S : \A k \in S : i >= k

\* normalize_abs with the paths of the working directory written ./name.
normalize_abs_dot(wd, s) ==
  LET l == Len(wd)
      ll == Len(s)
  IN IF ll < l \/ SubSeq(s, 1, l) # wd THEN s
     ELSE IF ll = l THEN "."
     ELSE IF CharAt(s, l + 1) # "/"
     THEN SubSeq(s, RFindSlash(s, l) + 2, ll)
     ELSE IF ll = l + 1 THEN "."
     ELSE "./" \o SubSeq(s, l + 2, ll)

normalize_abs(wd, s) ==
  LET l == Len(wd)
      ll == Len(s)
  IN IF ll < l \/ SubSeq(s, 1, l) # wd THEN s
     ELSE IF ll = l THEN "."
     ELSE IF CharAt(s, l + 1) # "/"
     THEN SubSeq(s, RFindSlash(s, l) + 2, ll)
     ELSE IF ll = l + 1 THEN "."
     ELSE SubSeq(s, l + 2, ll)

\* The end of normalize: the names of l with a separator between them.
RECURSIVE Join(_)
Join(l) ==
  IF Len(l) = 1 THEN l[1] ELSE l[1] \o "/" \o Join(Tail(l))

\* normalize(s); NormalizeLoop is its for loop, at the separator pos with
\* the name before it starting at prev, l being the names kept so far.
RECURSIVE normalize(_, _)
RECURSIVE NormalizeLoop(_, _, _, _, _, _)
NormalizeLoop(wd, s, absolute, prev, pos, l) ==
  LET n == SubSeq(s, prev + 1, pos)
      escapes == pos # prev /\ n = ".." /\ l = <<>> /\ ~absolute
      l2 == IF pos = prev THEN l
            ELSE IF n = ".." THEN (IF l # <<>> THEN SubSeq(l, 1, Len(l) - 1) ELSE l)
            ELSE IF n # "." THEN Append(l, n)
            ELSE l
      next == FindSlash(s, pos + 1)
  IN IF escapes THEN normalize(wd, wd \o "/" \o s)
     ELSE IF pos + 1 >= Len(s)
     THEN (IF l2 = <<>> THEN (IF absolute THEN "/" ELSE ".")
           ELSE IF absolute THEN normalize_abs(wd, "/" \o Join(l2))
           ELSE Join(l2))
     ELSE NormalizeLoop(wd, s, absolute, pos + 1,
                        IF next = -1 THEN Len(s) ELSE next, l2)

normalize(wd, s) ==
  IF FindSlash(s, 0) = -1 THEN s
  ELSE NormalizeLoop(wd, s, FindSlash(s, 0) = 0, 0, FindSlash(s, 0), <<>>)

NzInit ==
  /\ \E wd \in WorkingDirs : \E n \in 0..MaxPath : \E s \in PathsOfLength(n) :
       trace = [kind |-> "start", working_dir |-> wd, given |-> s, arg |-> "",
                path |-> s]
  /\ pc = "normalize"
  /\ specific_rules = <<>>
  /\ generic_rules = <<>>
  /\ dependencies = <<>>
  /\ dep_heap = <<>>
  /\ first_target = ""
  /\ status = <<>>
  /\ files = <<>>
  /\ remake_db = <<>>
  /\ job_targets = <<>>
  /\ job_pids = <<>>
  /\ clients = <<>>
  /\ max_active_jobs = 1
  /\ keep_going = FALSE
  /\ running_jobs = 0
  /\ waiting_jobs = 0
  /\ job_counter = 0
  /\ build_failure = FALSE
  /\ now = StartTime
  /\ children = <<>>
  /\ replies = <<>>
  /\ accepted = <<>>
  /\ scenario = "normalize"
  /\ run = 1
  /\ exit_status = "none"
  /\ bootstrap = FALSE
  /\ interrupted = FALSE
  /\ rejected = <<>>
  /\ spawned = 0

\* One call normalize(path), path being the path given or the string that
\* the last call has returned.
Normalize ==
  /\ pc = "normalize"
  /\ trace' = [kind |-> "normalize", working_dir |-> trace.working_dir,
               given |-> trace.given, arg |-> trace.path,
               path |-> normalize(trace.working_dir, trace.path)]
  /\ UNCHANGED <<specific_rules, generic_rules, dependencies, dep_heap, status,
                 job_targets, job_pids, clients, max_active_jobs, keep_going,
                 running_jobs, waiting_jobs, job_counter, build_failure, now, pc,
                 files, children, replies, accepted, remake_db, scenario, run,
                 exit_status, bootstrap, first_target, interrupted, rejected,
                 spawned>>

NzNext == Normalize

NzSpec == NzInit /\ [][NzNext]_vars

(***************************************************************************)
(* find_rule on its own: the rules that load_rules leaves for a rule file  *)
(* of at most MaxRules rules, and calls of find_rule in any order.  trace  *)
(* holds the target of the last call and the rule returned.                *)
(***************************************************************************)
MaxRules == 3

FrTargets == {"f.o", "f.d", "x"}

\* The rules of the rule file; the script names the rule.
FrRules ==
  { Rule(<<"%o", "%.o">>, <<"%.c">>, "ga"),
    Rule(<<"%.o">>, <<"%.h">>, "gb"),
    Rule(<<"%.o", "%.d">>, <<"%.c">>, "gc"),
    Rule(<<"f%">>, <<>>, "gd"),
    Rule(<<"f.o">>, <<"a">>, ""),
    Rule(<<"f.d">>, <<"b">>, ""),
    Rule(<<"f.d">>, <<>>, "sd"),
    Rule(<<"f.o">>, <<>>, "so") }

FrInit ==
  /\ \E n \in 0..MaxRules : \E rules \in [1..n -> FrRules] :
       \E ld \in {load_rules([specific_rules |-> <<>>, generic_rules |-> <<>>,
                              store |-> EmptyStore, first_target |-> "",
                              error |-> ""], rules)} :
          /\ ld.error = ""
          /\ specific_rules = ld.specific_rules
          /\ generic_rules = ld.generic_rules
          /\ dependencies = ld.store.dependencies
          /\ dep_heap = ld.store.dep_heap
          /\ first_target = ld.first_target
  /\ status = <<>>
  /\ trace = [kind |-> "start", target |-> "", rule |-> EmptyRule]
  /\ pc = "find_rule"
  /\ files = <<>>
  /\ remake_db = <<>>
  /\ job_targets = <<>>
  /\ job_pids = <<>>
  /\ clients = <<>>
  /\ max_active_jobs = 1
  /\ keep_going = FALSE
  /\ running_jobs = 0
  /\ waiting_jobs = 0
  /\ job_counter = 0
  /\ build_failure = FALSE
  /\ now = StartTime
  /\ children = <<>>
  /\ replies = <<>>
  /\ accepted = <<>>
  /\ scenario = "find_rule"
  /\ run = 1
  /\ exit_status = "none"
  /\ bootstrap = FALSE
  /\ interrupted = FALSE
  /\ rejected = <<>>
  /\ spawned = 0

\* One call find_rule(t).
FindRule(t) ==
  /\ pc = "find_rule"
  /\ trace' = [kind |-> "find_rule", target |-> t,
               rule |-> find_rule(specific_rules, generic_rules, t)]
  /\ UNCHANGED <<specific_rules, generic_rules, dependencies, dep_heap, status,
                 job_targets, job_pids, clients, max_active_jobs, keep_going,
                 running_jobs, waiting_jobs, job_counter, build_failure, now, pc,
                 files, children, replies, accepted, remake_db, scenario, run,
                 exit_status, bootstrap, first_target, interrupted, rejected, spawned>>

FrNext == \E t \in FrTargets : FindRule(t)

FrSpec == FrInit /\ [][FrNext]_vars

(***************************************************************************)
(* Properties of the scheduler.                                            *)
(***************************************************************************)
Built == {"Uptodate", "Remade"}

\* C1: with max_active_jobs = N > 0 every shell is spawned in a state where
\* running_jobs - waiting_jobs < N, and running_jobs - waiting_jobs <= N in
\* every reachable state; with N <= 0 the budget never blocks a spawn:
\* handle_clients returns with no target left pending.
C1_SlotBudget ==
  /\ max_active_jobs > 0 =>
       /\ running_jobs - waiting_jobs <= max_active_jobs
       /\ \A i \in 1..Len(trace.spawns) : trace.spawns[i].active < max_active_jobs
  /\ (max_active_jobs <= 0 /\ trace.kind = "handle") =>
       \A i \in 1..Len(clients) : clients[i].pending = <<>>

\* The budget is used up while a parent waits for a reply and a target is
\* still pending.
C1_Witness ==
  /\ max_active_jobs > 0
  /\ waiting_jobs > 0
  /\ running_jobs - waiting_jobs = max_active_jobs
  /\ \E i \in 1..Len(clients) : clients[i].pending # <<>>

\* C2: forward progress: every call of server_loop eventually ends, with
\* handle_clients returning false, no client left and running_jobs = 0.
C2_ForwardProgress ==
  (pc = "handle") ~> (pc = "done" /\ clients = <<>> /\ running_jobs = 0)

\* C3: whenever handle_clients has returned true and the server waits for
\* events, some shell child is alive that is not blocked on a sub-request.
C3_SomeChildRuns == pc = "wait" => Unblocked(children) # {}

\* C4: the script of a rule with static prerequisites is spawned when its
\* dependency client has nothing pending, nothing running and has not
\* failed, and every static prerequisite is then Uptodate or Remade.
C4_PrerequisitesFirst ==
  \A i \in 1..Len(trace.spawns) :
    LET sp == trace.spawns[i] IN
    sp.rule.deps # <<>> =>
      /\ sp.via.pending = <<>>
      /\ sp.via.running = {}
      /\ ~sp.via.failed
      /\ \A d \in DOMAIN sp.deps : sp.deps[d] \in Built

\* C5: at no time do two live jobs (entries of job_targets) contain the
\* same target.
C5_OneJobPerTarget ==
  \A i, j \in DOMAIN job_targets :
    i # j => SeqToSet(job_targets[i]) \cap SeqToSet(job_targets[j]) = {}

\* C6: every accepted sub-request receives exactly one reply byte: whenever
\* some accepted request has no reply yet, eventually every accepted request
\* has exactly one.
C6_EveryRequestReplied ==
  (\E fd \in DOMAIN accepted : fd \notin DOMAIN replies)
    ~> (\A fd \in DOMAIN accepted : fd \in DOMAIN replies /\ Len(replies[fd]) = 1)

\* C7: while job J is live, the targets of every sub-request accepted from J
\* are prerequisites in the dependency record of every target of J.
C7_RequestsRecorded ==
  \A fd \in DOMAIN accepted :
    accepted[fd].job_id \in DOMAIN job_targets =>
      \A t \in SeqToSet(job_targets[accepted[fd].job_id]) :
        /\ t \in DOMAIN dependencies
        /\ SeqToSet(accepted[fd].targets) \subseteq dep_heap[dependencies[t]].deps

\* C8: a run that immediately follows a successful run for the same targets,
\* no file having been modified, spawns no shell.
C8_SecondRunSpawnsNothing ==
  (run > 1 /\ exit_status = "EXIT_SUCCESS" /\ pc \in {"handle", "wait", "done"})
    => trace.spawns = <<>>

\* The targets that T reaches through the recorded prerequisites.
RECURSIVE Closure(_)
Closure(T) ==
  LET N == T \cup UNION {dep_heap[dependencies[t]].deps : t \in T \cap DOMAIN dependencies}
  IN IF N = T THEN T ELSE Closure(N)

\* C9: when server_loop has ended without build_failure, no target in the
\* closure of the requested targets under the recorded prerequisites is
\* Todo, Recheck, Running or Failed.
C9_ClosureBuilt ==
  (pc = "done" /\ ~build_failure) =>
    \A t \in Closure(SeqToSet(scenario.targets)) :
      StatusOf(status, t) \notin {"Todo", "Recheck", "Running", "Failed"}

\* C11: when the dependency client of a rule completes with success, the
\* first target of the rule having been found Recheck and every prerequisite
\* of its dependency record being Uptodate, no shell is spawned for the rule.
C11_RecheckSkipsScript ==
  \A i \in 1..Len(trace.spawns) :
    LET sp == trace.spawns[i] IN
    ~ /\ ~IsNull(sp.via.delayed)
      /\ sp.via.was = "Recheck"
      /\ \A d \in DOMAIN sp.recorded : sp.recorded[d] = "Uptodate"

\* A client that server_mode has created: no socket, no delayed rule.
IsOriginal(c) == c.socket = InvalidSocket /\ IsNull(c.delayed)

\* The prerequisites that .remake records: those of the runs before.
RecordedBefore == UNION {SeqToSet(remake_db[k][2]) : k \in 1..Len(remake_db)}

\* The call of start logged as e is made for a static prerequisite of the
\* rule of a job that has been started, for a target of an accepted
\* sub-request, or for a target of the command line (the default target if
\* the command line names none).
OnRequest(e) ==
  IF ~IsNull(e.by.delayed)
  THEN /\ e.target \in SeqToSet(e.by.delayed.deps)
       /\ e.by.job_id \in e.before.jobs
  ELSE IF e.by.socket # InvalidSocket
  THEN /\ e.by.socket \in DOMAIN accepted
       /\ e.target \in SeqToSet(accepted[e.by.socket].targets)
  ELSE \/ e.target \in SeqToSet(scenario.targets)
       \/ scenario.targets = <<>> /\ ~bootstrap /\ e.target = first_target

\* C12: start is called for a prerequisite recorded by an earlier run only
\* when it is asked for in the current run: it is a target of the command
\* line, a static prerequisite of the rule of a job that has been started,
\* or a target of an accepted sub-request.
C12_StartedOnRequest ==
  \A i \in 1..Len(trace.started) :
    trace.started[i].target \in RecordedBefore => OnRequest(trace.started[i])

\* C12 as the code has it: start is called for a target, recorded by an
\* earlier run or not, only when it is asked for in the current run, or
\* when it is the rule file and server_mode rebuilds it first.
C12_StartedOnRequestOrRuleFile ==
  \A i \in 1..Len(trace.started) :
    \/ OnRequest(trace.started[i])
    \/ /\ bootstrap
       /\ IsOriginal(trace.started[i].by)
       /\ trace.started[i].target = RemakefileName

\* The script of a rule is spawned while a prerequisite that an earlier run
\* recorded for it, and that no rule names, is obsolete and has not been
\* started.
C12_Witness ==
  \E i \in 1..Len(trace.spawns) :
    LET sp == trace.spawns[i] IN
    \E d \in DOMAIN sp.recorded :
      /\ d \notin SeqToSet(sp.rule.deps)
      /\ sp.recorded[d] \in {"Todo", "Recheck"}
      /\ StatusOf(status, d) \in {"Todo", "Recheck"}
      /\ \A j \in 1..Len(trace.started) : trace.started[j].target # d

\* The part of C13 that the code keeps in every case: without keep_going a
\* client that sees a Failed target is completed at once with failure, so
\* without option -k no client ever carries the flag failed or starts a
\* target after a failure; with keep_going no client is completed from a Failed target
\* seen, a client with the flag is never completed with success, and it is
\* completed from its flag only with nothing pending and nothing running.
FailedHandling ==
  /\ ~scenario.keep =>
       /\ \A i \in 1..Len(clients) : ~clients[i].failed
       /\ \A i \in 1..Len(trace.started) : ~trace.started[i].by.failed
       /\ \A i \in 1..Len(trace.requests) : ~trace.requests[i].client.failed
  /\ \A i \in 1..Len(trace.requests) :
       LET q == trace.requests[i] IN
       /\ q.cause = "failed" => ~keep_going /\ ~q.success
       /\ q.client.failed => ~q.success
       /\ q.cause = "sticky" =>
            q.client.failed /\ q.client.pending = <<>> /\ q.client.running = {}
       /\ q.success => q.client.pending = <<>> /\ q.client.running = {}

\* C13: when a client sees a Failed target, without keep_going it is
\* completed at once with failure and starts nothing more; with keep_going
\* it only sets its flag, and it is completed with failure only once its
\* pending list and its running set are both empty.
C13_FailedTarget ==
  /\ FailedHandling
  /\ keep_going =>
       \A i \in 1..Len(trace.requests) :
         LET q == trace.requests[i] IN
         ~q.success => q.client.pending = <<>> /\ q.client.running = {}

\* C13 as the code has it: with keep_going a client is completed with
\* failure once its pending list and its running set are both empty, or
\* when handle_clients breaks a circular dependency by failing the first
\* client of the queue, whatever that client still waits for.
C13_FailedTargetOrCircular ==
  /\ FailedHandling
  /\ keep_going =>
       \A i \in 1..Len(trace.requests) :
         LET q == trace.requests[i] IN
         (~q.success /\ q.cause # "circular") =>
            q.client.pending = <<>> /\ q.client.running = {}

\* With keep_going a client that has seen a failure has gone on, has found
\* another of its targets built, and is completed with failure.
C13_Witness ==
  /\ keep_going
  /\ \E i \in 1..Len(trace.requests) :
       /\ trace.requests[i].cause = "sticky"
       /\ trace.requests[i].client.seen # {}

\* The steps of server_loop that run the waitpid loop.
Reaping(tr) == tr.kind \in {"reap", "accept-reap"}

\* After the waitpid loop every job reaped is gone from job_targets and
\* job_pids, and every target of a job whose shell failed is Failed and has
\* no file, unless a job reaped after it in the same loop had this target
\* too.
ReapEffect ==
  Reaping(trace) =>
    \A i \in 1..Len(trace.completed) :
      LET c == trace.completed[i] IN
      /\ c.job \notin DOMAIN job_targets
      /\ c.job \notin DOMAIN job_pids
      /\ ~c.success =>
           \A t \in SeqToSet(c.targets) :
             \/ \E j \in (i + 1)..Len(trace.completed) :
                   t \in SeqToSet(trace.completed[j].targets)
             \/ StatusOf(status, t) = "Failed" /\ t \notin DOMAIN files

\* Some client awaits a target that is Failed and has not taken note of it.
AwaitsFailed ==
  \E i \in 1..Len(clients) :
    /\ ~clients[i].failed
    /\ \E t \in clients[i].running : StatusOf(status, t) = "Failed"

\* C14: when shells exit, each job reaped is removed from job_targets and
\* running_jobs is decremented by one for it; the targets of a job whose
\* shell failed are Failed and their files removed; and the clients that
\* await such a target subsequently fail or set their flag.
C14_FailedJob ==
  /\ []ReapEffect
  /\ [][Reaping(trace') =>
          running_jobs' = running_jobs - Len(trace'.completed)]_vars
  /\ AwaitsFailed ~> ~AwaitsFailed

\* A shell has failed and a client awaits a target of its job.
C14_Witness ==
  /\ Reaping(trace)
  /\ \E i \in 1..Len(trace.completed) : ~trace.completed[i].success
  /\ AwaitsFailed

\* What tells a client from the others of the queue.
ClientId(c) == <<c.job_id, c.socket>>

\* The client id has taken note of a failure: it is in the queue with its
\* flag set, or it has been completed with failure.
Surfaced(id) ==
  \/ \E i \in 1..Len(clients) : ClientId(clients[i]) = id /\ clients[i].failed
  \/ \E i \in 1..Len(trace.requests) :
        /\ ClientId(trace.requests[i].client) = id
        /\ ~trace.requests[i].success

\* C15: a call of start for a target without rule sets the status of this
\* target to Failed and changes nothing else: job_counter, job_targets, the
\* number of clients and the shells spawned are as before; the client that
\* asked for the target fails or sets its flag, and with keep_going it is
\* not completed before its other pending targets have been handled.
C15_NoRule ==
  \A i \in 1..Len(trace.started) :
    LET e == trace.started[i] IN
    ~e.ok =>
      /\ e.after.job_counter = e.before.job_counter
      /\ e.after.jobs = e.before.jobs
      /\ e.after.clients = e.before.clients
      /\ e.after.spawns = e.before.spawns
      /\ e.after.status = [e.before.status EXCEPT ![e.target].status = "Failed"]
      /\ Surfaced(ClientId(e.by))
      /\ keep_going =>
           \A j \in 1..Len(trace.requests) :
             LET q == trace.requests[j] IN
             (ClientId(q.client) = ClientId(e.by) /\ q.cause # "circular") =>
                q.cause = "sticky" /\ q.client.pending = <<>>

\* With keep_going a client asks for a target without rule and, its flag
\* set, starts the next of its pending targets.
C15_Witness ==
  /\ keep_going
  /\ \E i, j \in 1..Len(trace.started) :
       /\ i < j
       /\ ~trace.started[i].ok
       /\ trace.started[i].by.pending # <<>>
       /\ ClientId(trace.started[j].by) = ClientId(trace.started[i].by)
       /\ trace.started[j].by.failed
       /\ trace.started[j].ok

\* load_rules has ended this invocation with exit(EXIT_FAILURE).
LoadError == pc = "exited" /\ trace.kind \in {"start", "reload"}

\* C16: when an error of the rule file (a syntax error, a second rule for a
\* target that has a scripted rule, targets of mixed genericity, no rule
\* file) ends the invocation, no shell has been started by this invocation.
C16_ErrorsBeforeScripts == LoadError => spawned = 0

\* The targets of the specific rules of a rule file, its generic rules, and
\* the first target of its first specific rule.
SpecificTargets(rules) ==
  UNION {SeqToSet(rules[k].targets) : k \in {n \in 1..Len(rules) : ~IsGeneric(rules[n])}}

GenericCount(rules) == Cardinality({n \in 1..Len(rules) : IsGeneric(rules[n])})

DefaultTarget(rules) ==
  LET S == {n \in 1..Len(rules) : ~IsGeneric(rules[n])}
  IN IF S = {} THEN "" ELSE rules[CHOOSE n \in S : \A m \in S : n <= m].targets[1]

\* While the rule file is being rebuilt, the clients that server_mode has
\* created ask for the rule file only, and start is called for them on the
\* rule file only.
BootstrapOnly ==
  /\ \A i \in 1..Len(clients) :
        IsOriginal(clients[i]) =>
          SeqToSet(clients[i].pending) \cup clients[i].running \subseteq {RemakefileName}
  /\ \A k \in 1..Len(trace.started) :
        IsOriginal(trace.started[k].by) => trace.started[k].target = RemakefileName
  /\ \A k \in 1..Len(trace.requests) :
        IsOriginal(trace.requests[k].client) /\ ~trace.requests[k].success
          => build_failure

\* The first server_loop has returned without failure: either the rule file
\* has an error, or the rules and the default target are those of the rule
\* file as it is now, and the client of the command line is created.
ReloadEffect ==
  \/ pc' = "exited" /\ exit_status' = "EXIT_FAILURE"
  \/ /\ pc' = "handle"
     /\ DOMAIN specific_rules' = SpecificTargets(RuleFile(scenario, files))
     /\ Len(generic_rules') = GenericCount(RuleFile(scenario, files))
     /\ first_target' = DefaultTarget(RuleFile(scenario, files))
     /\ clients' = Append(clients,
                          [NewClient EXCEPT
                             !.pending = IF scenario.targets # <<>>
                                         THEN scenario.targets
                                         ELSE <<first_target'>>])

\* C17: when the rule file is not Uptodate at startup, the first client has
\* the rule file as its only pending target and, until it completes, start
\* is called for no target of the command line; when it succeeds the rules
\* and the default target are cleared and the rule file is parsed again
\* before the client of the command line is created; when it fails the
\* process exits with EXIT_FAILURE and no such client is ever created.
C17_Bootstrap ==
  /\ [](trace.kind = "start" /\ pc = "handle" =>
          /\ bootstrap <=> StatusOf(status, RemakefileName) # "Uptodate"
          /\ bootstrap => clients = <<[NewClient EXCEPT !.pending = <<RemakefileName>>]>>)
  /\ [](bootstrap => BootstrapOnly)
  /\ [][pc = "done" /\ bootstrap /\ ~build_failure => ReloadEffect]_vars
  /\ [][pc = "done" /\ bootstrap /\ build_failure =>
          pc' = "exited" /\ exit_status' = "EXIT_FAILURE" /\ bootstrap']_vars

\* The rule file has been rebuilt and parsed again: the rule of out is gone.
C17_Witness ==
  /\ trace.kind = "reload"
  /\ pc = "handle"
  /\ scenario.name = "boot-pattern"
  /\ "out" \notin DOMAIN specific_rules
  /\ clients = <<[NewClient EXCEPT !.pending = <<"f.o">>]>>

\* C18: once sigint_handler has run, handle_clients and accept_client spawn
\* no shell.
C18_NoStartAfterSigint == interrupted => trace.spawns = <<>>

\* The map from target to prerequisite set of a dependency store.
DepMap(store) ==
  [t \in DOMAIN store.dependencies |->
     store.dep_heap[store.dependencies[t]].deps]

\* C19: the lines that save_dependencies writes for the dependency store,
\* read by load_dependencies, give the map from target to prerequisite set
\* of the store.
C19_SaveLoad ==
  DepMap(load_dependencies(EmptyStore, save_dependencies(dependencies, dep_heap)))
    = DepMap([dependencies |-> dependencies, dep_heap |-> dep_heap])

\* The pattern pt = A%B matches target with a stem of at least one
\* character, and the length of that stem.
Matches(pt, target) ==
  LET pos == FindPercent(pt)
      lenB == Len(pt) - (pos + 1)
  IN /\ pos # -1
     /\ pos + lenB < Len(target)
     /\ SubSeq(target, 1, pos) = SubSeq(pt, 1, pos)
     /\ SubSeq(target, Len(target) - lenB + 1, Len(target)) = SubSeq(pt, pos + 2, Len(pt))

StemLength(pt, target) == Len(target) - (Len(pt) - 1)

\* The generic rules with a pattern that matches target, the smallest
\* substitution length of such a rule, and the rule to select.
Matching(target) ==
  {i \in 1..Len(generic_rules) :
     \E j \in 1..Len(generic_rules[i].targets) :
        Matches(generic_rules[i].targets[j], target)}

Shortest(i, target) ==
  LET P == {StemLength(generic_rules[i].targets[j], target) :
              j \in {k \in 1..Len(generic_rules[i].targets) :
                       Matches(generic_rules[i].targets[k], target)}}
  IN CHOOSE p \in P : \A q \in P : p <= q

Selected(target) ==
  CHOOSE i \in Matching(target) :
    \A k \in Matching(target) :
      \/ Shortest(i, target) < Shortest(k, target)
      \/ Shortest(i, target) = Shortest(k, target) /\ i <= k

\* The prerequisites of the transparent specific rules of targets[j..].
RECURSIVE TransparentDeps(_, _)
TransparentDeps(targets, j) ==
  IF j > Len(targets) THEN <<>>
  ELSE (IF /\ targets[j] \in DOMAIN specific_rules
           /\ specific_rules[targets[j]].script = ""
        THEN specific_rules[targets[j]].deps ELSE <<>>)
       \o TransparentDeps(targets, j + 1)

\* The rule r is the generic rule g with % replaced by a part of target,
\* and the prerequisites of the transparent rules of its targets appended.
Effective(r, g, target) ==
  \E a \in 1..Len(target) : \E b \in a..Len(target) :
    LET pat == SubSeq(target, a, b) IN
    /\ r.script = g.script
    /\ r.targets = substitute_pattern(pat, g.targets)
    /\ r.deps = substitute_pattern(pat, g.deps) \o TransparentDeps(r.targets, 1)
    /\ \E j \in 1..Len(r.targets) : r.targets[j] = target

\* C20: find_rule(T) returns the scripted specific rule of T if there is
\* one; otherwise the generic rule of smallest substitution length over its
\* patterns that match T, the earliest declared among equals, with %
\* substituted and the prerequisites of the transparent specific rules of
\* its targets appended; and with no matching generic rule the transparent
\* specific rule of T, or the empty rule.
C20_FindRule ==
  trace.kind = "find_rule" =>
    LET T == trace.target
        r == trace.rule
    IN IF T \in DOMAIN specific_rules /\ specific_rules[T].script # ""
       THEN r = specific_rules[T]
       ELSE IF Matching(T) # {}
       THEN Effective(r, generic_rules[Selected(T)], T)
       ELSE IF T \in DOMAIN specific_rules
       THEN r = specific_rules[T]
       ELSE r = EmptyRule

\* C21: a request that names a job without entry in job_targets is answered
\* by a failure (the socket is closed without a byte, and client_mode exits
\* with EXIT_FAILURE), and accept_client leaves the client queue,
\* waiting_jobs, the status map and the dependency store as they were.
C21_UnknownJob ==
  /\ [](\A fd \in DOMAIN rejected :
          /\ fd \notin DOMAIN replies
          /\ client_mode(<<>>) = "EXIT_FAILURE"
          /\ \A i \in 1..Len(clients) : clients[i].socket # fd)
  /\ [][trace'.kind = "accept" /\ trace'.closed # <<>> =>
          /\ clients' = clients
          /\ waiting_jobs' = waiting_jobs
          /\ status' = status
          /\ dependencies' = dependencies
          /\ dep_heap' = dep_heap
          /\ replies' = replies]_vars

\* A request that names a job that has ended has been refused while another
\* job is live and a client is in the queue.
C21_Witness ==
  /\ trace.kind = "accept"
  /\ \E fd \in DOMAIN rejected : rejected[fd].job_id >= 0
  /\ clients # <<>>
  /\ job_targets # <<>>

\* C22: a dependency client leaves the queue before the client whose
\* pending target has made start create it: while it is in the queue its
\* creator is behind it, and a call of handle_clients that completes both
\* completes it first.
C22_DependencyFirst ==
  /\ \A i \in 1..Len(clients) :
        clients[i].creator # <<>> =>
          \E k \in (i + 1)..Len(clients) : ClientId(clients[k]) = clients[i].creator
  /\ \A b \in 1..Len(trace.requests) :
        trace.requests[b].client.creator # <<>> =>
          \A a \in 1..(b - 1) :
            ClientId(trace.requests[a].client) # trace.requests[b].client.creator

\* C23: normalize(normalize(x)) = normalize(x): a string that normalize has
\* returned is returned unchanged by the next call.
C23_NormalizeIdempotent ==
  [][trace.kind = "normalize" => trace'.path = trace.path]_vars

\* normalize has been applied to the result of a call that has changed its
\* argument: a path with "..", left through the working directory.
C23_Witness ==
  /\ trace.kind = "normalize"
  /\ trace.working_dir = "/a"
  /\ trace.given = "../b/"
  /\ trace.arg = "/b"
  /\ trace.path = "/b"

\* C24: running_jobs >= waiting_jobs >= 0 in every state, whatever the
\* order of script starts, accepted requests, replies and child exits.
C24_WaitingWithinRunning ==
  /\ waiting_jobs >= 0
  /\ running_jobs >= waiting_jobs

\* The job ids of the shells that a step has recorded in job_pids.
SpawnedJobs(tr) == {tr.spawns[k].job : k \in 1..Len(tr.spawns)}

\* C25: running_jobs is the number of entries of job_pids, which are the
\* live shells; a call of handle_clients adds one for each shell that
\* run_script records and removes none, the waitpid loop removes one for
\* each child that finalize_job takes out and adds none, and no other step
\* of an invocation changes the counter.
C25_RunningJobs ==
  /\ [](/\ running_jobs = Cardinality(DOMAIN job_pids)
        /\ DOMAIN job_pids = DOMAIN children)
  /\ [][CASE trace'.kind = "handle" ->
               /\ DOMAIN job_pids' = DOMAIN job_pids \cup SpawnedJobs(trace')
               /\ DOMAIN job_pids \cap SpawnedJobs(trace') = {}
               /\ running_jobs' = running_jobs + Len(trace'.spawns)
            [] trace'.kind \in {"reap", "accept-reap"} ->
               /\ trace'.spawns = <<>>
               /\ DOMAIN job_pids' \subseteq DOMAIN job_pids
               /\ running_jobs' =
                    running_jobs - Cardinality(DOMAIN job_pids \ DOMAIN job_pids')
            [] trace'.kind = "start" ->
               running_jobs' = 0 /\ job_pids' = <<>>
            [] OTHER ->
               running_jobs' = running_jobs /\ job_pids' = job_pids]_vars

\* The waitpid loop has taken one child out while another shell is running.
C25_Witness ==
  /\ trace.kind = "reap"
  /\ trace.completed # <<>>
  /\ running_jobs = 1
  /\ Cardinality(DOMAIN job_pids) = 1

\* A client of the queue q that handle_clients can take further with the
\* status map st: it has pending targets, or none of its running targets is
\* still Running.
Progressable(q, st) ==
  {i \in 1..Len(q) :
     \/ q[i].pending # <<>>
     \/ \E t \in q[i].running : StatusOf(st, t) # "Running"
     \/ q[i].running = {}}

\* C26: each time handle_clients reports a circular dependency, every live
\* shell is blocked on a request, no client of the queue has work that can
\* progress, and the client that is completed next, with a failure, is the
\* first of the queue.
C26_CircularOnlyWhenStuck ==
  \A k \in 1..Len(trace.stuck) :
    LET at == trace.stuck[k] IN
    /\ Unblocked(at.children) = {}
    /\ Progressable(at.clients, at.status) = {}
    /\ Len(trace.requests) > at.done
    /\ trace.requests[at.done + 1] =
         [client |-> at.clients[1], success |-> FALSE, cause |-> "circular"]

\* The call e of start has inserted a dependency client.
Inserted(e) == e.after.clients = e.before.clients + 1

\* C27: the queue is kept depth first.  A call of start that makes a
\* dependency client inserts it immediately before the client that asked
\* for the target; a client stays behind the dependency clients it has
\* created; a client is asked for its next pending target only when none
\* of the dependency clients it has created has a pending target left; and
\* accept_client puts the client of a request at the front of the queue.
C27_DepthFirst ==
  /\ [](/\ \A i \in 1..Len(clients) : \A k \in 1..(i - 1) :
             clients[i].creator # <<>> => ClientId(clients[k]) # clients[i].creator
        /\ \A n \in 1..Len(trace.started) :
             LET e == trace.started[n] IN
             /\ Inserted(e) =>
                  \E i \in 1..Len(e.before.queue) :
                    /\ e.before.queue[i] = e.by
                    /\ e.after.queue[i].job_id = e.before.job_counter
                    /\ e.after.queue[i].creator = ClientId(e.by)
                    /\ e.after.queue[i + 1] = e.by
                    /\ e.after.queue = InsertAt(e.before.queue, i, e.after.queue[i])
             /\ \A i \in 1..Len(e.before.queue) :
                  e.before.queue[i].creator = ClientId(e.by) =>
                    e.before.queue[i].pending = <<>>)
  /\ [][trace'.kind \in {"accept", "accept-reap"} /\ trace'.closed = <<>> =>
          /\ Len(clients') = Len(clients) + 1
          /\ Tail(clients') = clients
          /\ clients'[1].socket = NextSocket
          /\ clients'[1].pending = accepted'[NextSocket].targets]_vars

\* A call of handle_clients has started a target with prerequisites for a
\* client, then the prerequisite for the dependency client, and then the
\* next pending target of that client.
C27_Witness ==
  /\ trace.kind = "handle"
  /\ \E k, l, m \in 1..Len(trace.started) :
        /\ k < l /\ l < m
        /\ Inserted(trace.started[k])
        /\ trace.started[l].by.creator = ClientId(trace.started[k].by)
        /\ ClientId(trace.started[m].by) = ClientId(trace.started[k].by)

\* C28: job ids are not used twice in a run.  Every key of job_targets and
\* every job id carried by a client or recorded for a child is below
\* job_counter; a call of start that succeeds makes the job job_counter,
\* which no job has, and increments the counter; and the counter never
\* decreases while the invocation runs, the bootstrap pass included.
C28_JobIds ==
  /\ [](/\ \A id \in DOMAIN job_targets : 0 <= id /\ id < job_counter
        /\ \A i \in 1..Len(clients) : clients[i].job_id < job_counter
        /\ \A p \in DOMAIN job_pids : job_pids[p] < job_counter
        /\ \A n \in 1..Len(trace.started) :
             LET e == trace.started[n] IN
             e.ok => /\ e.before.job_counter \notin e.before.jobs
                     /\ e.after.job_counter = e.before.job_counter + 1
                     /\ e.after.jobs = e.before.jobs \cup {e.before.job_counter}
                     /\ n > 1 => e.before.job_counter >=
                                    trace.started[n - 1].after.job_counter)
  /\ [][trace'.kind # "start" =>
          /\ job_counter' >= job_counter
          /\ \A n \in 1..Len(trace'.started) :
                trace'.started[n].before.job_counter >= job_counter
          /\ trace'.started # <<>> =>
                job_counter' >=
                  trace'.started[Len(trace'.started)].after.job_counter]_vars

\* After the bootstrap pass, whose job has ended, start has made a job for
\* a target of the rules that were loaded again.
C28_Witness ==
  /\ scenario.regenerated # scenario.rules
  /\ ~bootstrap
  /\ trace.kind = "handle"
  /\ \E n \in 1..Len(trace.started) :
        /\ trace.started[n].ok
        /\ trace.started[n].before.job_counter >= 1
        /\ trace.started[n].before.jobs = {}

\* C29: the dependency store shares its records.  For every record that a
\* target is bound to and every target t that the record lists, t is bound
\* to this same record.
C29_SharedRecords ==
  \A u \in DOMAIN dependencies :
    \A t \in SeqToSet(dep_heap[dependencies[u]].targets) :
      t \in DOMAIN dependencies /\ dependencies[t] = dependencies[u]

\* The call sp of run_script has bound the targets of its rule to one
\* record that was not in use, with these targets.
FreshShared(sp) ==
  /\ \A u \in SeqToSet(sp.rule.targets) : sp.bound[u] = sp.bound[sp.rule.targets[1]]
  /\ sp.bound[sp.rule.targets[1]] \notin sp.inuse
  /\ sp.record.targets = sp.rule.targets

\* C30 as stated: run_script binds the targets of the rule to one fresh
\* record whose prerequisites are those of the rule united with those that
\* were recorded for the targets.
C30_RecordUnited ==
  \A n \in 1..Len(trace.spawns) :
    LET sp == trace.spawns[n] IN
    /\ FreshShared(sp)
    /\ sp.record.deps = SeqToSet(sp.rule.deps) \cup sp.old

\* C30: run_script binds the targets of the rule to one fresh record whose
\* prerequisites are those of the rule and no other: the prerequisites that
\* were recorded for the targets are dropped.
C30_RecordReset ==
  \A n \in 1..Len(trace.spawns) :
    LET sp == trace.spawns[n] IN
    /\ FreshShared(sp)
    /\ sp.record.deps = SeqToSet(sp.rule.deps)

\* A script has been started for targets that had a recorded prerequisite
\* which is not a prerequisite of the rule.
C30_Witness ==
  \E n \in 1..Len(trace.spawns) :
    /\ trace.spawns[n].old \ SeqToSet(trace.spawns[n].rule.deps) # {}
    /\ \A u \in SeqToSet(trace.spawns[n].rule.targets) :
          dependencies[u] = trace.spawns[n].bound[u]

\* C31: no script is run for a dependency client that completes with
\* success when every prerequisite of the record of its target is Uptodate,
\* whatever status the target had when start was called.
C31_UptodatePrerequisitesNoScript ==
  \A n \in 1..Len(trace.spawns) :
    LET sp == trace.spawns[n] IN
    ~IsNull(sp.via.delayed) =>
      \E d \in DOMAIN sp.recorded : sp.recorded[d] # "Uptodate"

\* C32: within an invocation the status of a target does not go back.  A
\* target that is Running, Remade or Failed does not become Todo or Recheck,
\* a target that is Remade or Failed keeps its status, and no entry leaves
\* the status map.
C32_StatusMonotonic ==
  [][trace'.kind # "start" =>
       \A t \in DOMAIN status :
         /\ t \in DOMAIN status'
         /\ status[t].status \in {"Running", "Remade", "Failed"} =>
              status'[t].status \notin {"Todo", "Recheck"}
         /\ status[t].status \in {"Remade", "Failed"} =>
              status'[t].status = status[t].status]_vars

\* C33 as stated: update_status makes t Uptodate exactly when the file has
\* the recorded modification time and this time is before the startup, and
\* Remade otherwise; and when the modification time is not the recorded
\* one, last becomes the new one.
C33_UpdateStatus ==
  trace.kind = "update_status" =>
    /\ trace.after.status =
         IF trace.mtime # 0 /\ trace.mtime = trace.last /\ trace.mtime < now
         THEN "Uptodate" ELSE "Remade"
    /\ trace.mtime # trace.last => trace.after.last = trace.mtime

\* C33: update_status makes t Uptodate exactly when the file has the
\* recorded modification time and this time is before the startup, and
\* Remade otherwise.  last becomes the new modification time (0 for a
\* missing file) when the recorded one is before the startup, and it is
\* kept when the recorded one is the startup time or later: the file is
\* not looked at then.
C33_UpdateStatusRecorded ==
  trace.kind = "update_status" =>
    /\ trace.after.status =
         IF trace.mtime # 0 /\ trace.mtime = trace.last /\ trace.mtime < now
         THEN "Uptodate" ELSE "Remade"
    /\ trace.after.last = IF trace.last < now THEN trace.mtime ELSE trace.last

\* update_status has been called for a file that the script has written
\* again, the recorded modification time being the startup time or later.
C33_Witness ==
  /\ trace.kind = "update_status"
  /\ trace.last >= now
  /\ trace.mtime > trace.last
  /\ trace.after = [status |-> "Remade", last |-> trace.last]

\* C34: the assertions of handle_clients hold.  Every target of the running
\* set of a client has an entry in the status map, with a status that is
\* neither Todo nor Recheck, and no call of handle_clients aborts.
C34_RunningTargets ==
  /\ \A i \in 1..Len(clients) : \A t \in clients[i].running :
        StatusOf(status, t) \in {"Running", "Uptodate", "Remade", "Failed"}
  /\ trace.kind = "handle" => pc # "abort"

\* C35: when server_loop returns, nothing is left.  The queue of clients
\* is empty, running_jobs and waiting_jobs are 0, job_targets and job_pids
\* are empty, no shell is alive and no target is Running.
C35_NothingLeft ==
  pc = "done" =>
    /\ clients = <<>>
    /\ running_jobs = 0
    /\ waiting_jobs = 0
    /\ job_targets = <<>>
    /\ job_pids = <<>>
    /\ children = <<>>
    /\ \A t \in DOMAIN status : status[t].status # "Running"

\* server_loop has returned after a call of handle_clients that has
\* completed the last client, jobs having been run and requests accepted.
C35_Witness ==
  /\ pc = "done"
  /\ trace.kind = "handle"
  /\ trace.requests # <<>>
  /\ job_counter >= 2
  /\ accepted # <<>>

\* The clients of the queue q that have a socket to reply on.
SocketClients(q) == {i \in 1..Len(q) : q[i].socket # InvalidSocket}

\* The requests of socket clients that the step has completed.
Replied(tr) ==
  {n \in 1..Len(tr.requests) : tr.requests[n].client.socket # InvalidSocket}

\* C36: between two steps of the event loop waiting_jobs is the number of
\* clients of the queue that have a reply socket.  A step that accepts a
\* request and keeps its client adds one, a call of handle_clients takes
\* one off for each socket client that complete_request replies to, this
\* client leaving the queue, and nothing else changes the counter.
C36_WaitingJobs ==
  /\ [](waiting_jobs = Cardinality(SocketClients(clients)))
  /\ [][CASE trace'.kind \in {"accept", "accept-reap"} ->
               waiting_jobs' = waiting_jobs + (IF trace'.closed = <<>> THEN 1 ELSE 0)
            [] trace'.kind = "handle" ->
               /\ waiting_jobs' = waiting_jobs - Cardinality(Replied(trace'))
               /\ \A n \in Replied(trace') :
                    /\ trace'.requests[n].client.socket \in DOMAIN replies'
                    /\ \A i \in 1..Len(clients') :
                         clients'[i].socket # trace'.requests[n].client.socket
            [] trace'.kind = "start" -> waiting_jobs' = 0
            [] OTHER -> waiting_jobs' = waiting_jobs]_vars

\* A call of handle_clients has replied to one socket client while another
\* one stays in the queue.
C36_Witness ==
  /\ trace.kind = "handle"
  /\ Replied(trace) # {}
  /\ waiting_jobs >= 1

\* The dependency clients of the queue that hold job id with its rule.
Deferred(id) ==
  {i \in 1..Len(clients) : clients[i].job_id = id /\ ~IsNull(clients[i].delayed)}

\* The shells recorded for job id.
ShellsOf(id) == {p \in DOMAIN job_pids : job_pids[p] = id}

\* C37: every job of job_targets is in one stage.  Either one dependency
\* client holds its id and its rule and no shell is recorded for it, or one
\* shell is recorded for it and no client holds a rule for it.  Each step
\* completes a job at most once, a job that was in job_targets or that the
\* step has made, and the job is then gone: the assertion of complete_job
\* does not fail, and handle_clients aborts only on the assertions about
\* the running set of a client.
C37_JobStages ==
  /\ [](/\ \A id \in DOMAIN job_targets :
             \/ Cardinality(Deferred(id)) = 1 /\ ShellsOf(id) = {}
             \/ Cardinality(ShellsOf(id)) = 1 /\ Deferred(id) = {}
        /\ \A a, b \in 1..Len(trace.completed) :
             trace.completed[a].job = trace.completed[b].job => a = b
        /\ \A a \in 1..Len(trace.completed) :
             trace.completed[a].job \notin DOMAIN job_targets
        /\ pc = "abort" =>
             \E i \in 1..Len(clients) : \E t \in clients[i].running :
               StatusOf(status, t) \notin {"Running", "Uptodate", "Remade", "Failed"})
  /\ [][trace'.kind # "start" =>
          \A a \in 1..Len(trace'.completed) :
            \/ trace'.completed[a].job \in DOMAIN job_targets
            \/ /\ trace'.completed[a].job >= job_counter
               /\ trace'.completed[a].job < job_counter']_vars

\* A job is held by a dependency client while another has its shell, and
\* the step has completed a third.
C37_Witness ==
  /\ trace.completed # <<>>
  /\ \E id \in DOMAIN job_targets : Deferred(id) # {}
  /\ \E id \in DOMAIN job_targets : ShellsOf(id) # {}

\* C38: get_status returns for every dependency store, cyclic ones
\* included, and evaluates a target at most once.  After the call the
\* target has an entry; the call reads no prerequisite on behalf of a
\* target that had an entry before it; and on behalf of one target it reads
\* each prerequisite at most once.
C38_GetStatusTerminates ==
  trace.kind = "get_status" =>
    /\ trace.target \in DOMAIN status
    /\ \A n \in 1..Len(trace.observed) :
         /\ trace.observed[n].of \notin DOMAIN trace.before
         /\ trace.observed[n].of \in DOMAIN status
         /\ trace.observed[n].dep \in DOMAIN status
         /\ \A m \in 1..Len(trace.observed) :
              /\ trace.observed[m].of = trace.observed[n].of
              /\ trace.observed[m].dep = trace.observed[n].dep
              => m = n

\* get_status has gone round a cycle: a is a prerequisite of b and b one of
\* a, and the call has read each on behalf of the other.
C38_Witness ==
  /\ trace.kind = "get_status"
  /\ \E n, m \in 1..Len(trace.observed) :
        /\ trace.observed[n].of = "a" /\ trace.observed[n].dep = "b"
        /\ trace.observed[m].of = "b" /\ trace.observed[m].dep = "a"

\* C39: a call of get_status changes the status of no target that had an
\* entry in the status map: the first evaluation of a target leaves its
\* siblings that are Running, Remade or Failed, and every other target that
\* has a status, as they are.
C39_NoOverwrite == trace.reset = {}

\* The dependency clients that the step has completed with a failure.
FailedDeferred(tr) ==
  {n \in 1..Len(tr.requests) :
     ~IsNull(tr.requests[n].client.delayed) /\ ~tr.requests[n].success}

\* C40: when a dependency client is completed with a failure, because a
\* prerequisite has failed or to break a circular dependency, no shell is
\* forked for its job, complete_job is called for the job with failure, the
\* job leaves job_targets, and every target of its rule is Failed and has
\* no file, as after a script that has failed.
C40_FailedDependencyClient ==
  /\ \A p \in DOMAIN job_pids : job_pids[p] \in DOMAIN job_targets
  /\ \A n \in FailedDeferred(trace) :
       LET c == trace.requests[n].client IN
       /\ c.job_id \notin SpawnedJobs(trace)
       /\ c.job_id \notin DOMAIN job_targets
       /\ \A p \in DOMAIN job_pids : job_pids[p] # c.job_id
       /\ \E k \in 1..Len(trace.completed) :
            trace.completed[k] =
              [job |-> c.job_id, success |-> FALSE, targets |-> c.delayed.targets]
       /\ \A u \in SeqToSet(c.delayed.targets) :
            StatusOf(status, u) = "Failed" /\ u \notin DOMAIN files

\* A dependency client has been failed to break a circular dependency.
C40_Witness ==
  \E n \in FailedDeferred(trace) : trace.requests[n].cause = "circular"

(***************************************************************************)
(* Properties of get_status.                                               *)
(***************************************************************************)
\* st_mtime of a file, 0 when stat fails.
FileTime(f) == IF f \in DOMAIN files THEN files[f] ELSE 0

\* The latest modification time of the targets of a record.
LatestOf(dep) ==
  CHOOSE m \in {FileTime(k) : k \in SeqToSet(dep.targets)} :
    \A k \in SeqToSet(dep.targets) : FileTime(k) <= m

\* What the last call has read of the prerequisites of t.
ReadFor(t) ==
  {trace.observed[i] : i \in {j \in 1..Len(trace.observed) : trace.observed[j].of = t}}

\* The status that the rules of get_status give to the record dep of t.
Expected(t, dep) ==
  IF \/ \E k \in SeqToSet(dep.targets) : k \notin DOMAIN files
     \/ \E o \in ReadFor(t) : LatestOf(dep) < o.last
  THEN "Todo"
  ELSE IF \E o \in ReadFor(t) : o.status # "Uptodate" THEN "Recheck"
  ELSE "Uptodate"

\* C10: the first get_status(t) of a target with a record concludes Todo if
\* a sibling is missing or the latest sibling is older than the recorded
\* time of a prerequisite, else Recheck if a prerequisite is not Uptodate,
\* else Uptodate, and gives this status to every sibling; without a record
\* it is Todo with last = 0 for a missing file and Uptodate with the mtime
\* otherwise; a later call leaves the stored values as they are.
C10_GetStatus ==
  trace.kind = "get_status" =>
    LET t == trace.target IN
    IF t \in DOMAIN trace.before
    THEN status = trace.before /\ trace.observed = <<>>
    ELSE IF t \notin DOMAIN dependencies
    THEN status[t] = IF t \in DOMAIN files
                     THEN [status |-> "Uptodate", last |-> files[t]]
                     ELSE [status |-> "Todo", last |-> 0]
    ELSE LET dep == dep_heap[dependencies[t]] IN
         /\ status[t].status = Expected(t, dep)
         /\ \A k \in SeqToSet(dep.targets) :
              /\ status[k].status = Expected(t, dep)
              /\ status[k].last = FileTime(k)
         /\ \A o \in ReadFor(t) : o.dep \in dep.deps /\ o.last = FileTime(o.dep)
         /\ Expected(t, dep) # "Todo" => {o.dep : o \in ReadFor(t)} = dep.deps

\* A first evaluation of a record with two siblings and a prerequisite that
\* is not Uptodate, concluded Recheck.
C10_Witness ==
  /\ trace.kind = "get_status"
  /\ trace.target \notin DOMAIN trace.before
  /\ trace.target \in DOMAIN dependencies
  /\ Len(dep_heap[dependencies[trace.target]].targets) = 2
  /\ status[trace.target].status = "Recheck"

====
